---- MODULE Spec2Model ----
EXTENDS Integers, Sequences, FiniteSets, TLC

(***************************************************************************)
(* A model of the lisprs interpreter: the value model (values.rs), the     *)
(* environment chain (env.rs), the evaluator (eval.rs), the builtin        *)
(* registry (builtins.rs) and the arithmetic on values (arithmetic.rs).    *)
(*                                                                         *)
(* Text (symbol names, string contents) is a sequence of one-character     *)
(* strings.  The names an error carries are sequences of strings too.      *)
(* Environment frames live in a heap frames, indexed by frame id; an     *)
(* EnvRef is a frame id and the parent None is 0.                          *)
(* A Float is a rational n/d in lowest terms (d > 0); d = 0 holds the      *)
(* special values: 1/0 = +inf, -1/0 = -inf, 0/0 = NaN.  Rounding is not    *)
(* modelled.                                                               *)
(* A Result is a record [st, kind, v]: kind "Ok" carries a value, "Err" a  *)
(* RunError, "Panic" a Rust panic (the process ends), "StackOverflow" the  *)
(* exhaustion of the host stack.  st threads the heap and the            *)
(* observation log through the recursion.                                  *)
(***************************************************************************)

VARIABLES frames, lambdas, log, result, runs, alive, overflow_checks

vars == <<frames, lambdas, log, result, runs, alive, overflow_checks>>

\* ------------------------------------------------------------------ bounds
\* number of top-level expressions one session feeds to Interpreter::run
MaxRuns == 2
\* depth of nested eval calls the host stack holds
MaxDepth == 14

\* ------------------------------------------------------------------ values
Symbol(s)   == [s |-> s, t |-> "Symbol"]
Str(s)      == [s |-> s, t |-> "Str"]
Integer(n)  == [t |-> "Integer", n |-> n]
Float(n, d) == [t |-> "Float", n |-> n, d |-> d]
Bool(b)     == [t |-> "Bool", b |-> b]
List(l)     == [t |-> "List", l |-> l]
Proc(params, body, env) == [t |-> "Proc", params |-> params, body |-> body, env |-> env]
Nil         == [t |-> "Nil"]

get_type(v) ==
    CASE v.t = "Symbol"  -> <<"S","y","m","b","o","l">>
      [] v.t = "Str"     -> <<"S","t","r">>
      [] v.t = "Integer" -> <<"I","n","t","e","g","e","r">>
      [] v.t = "Float"   -> <<"F","l","o","a","t">>
      [] v.t = "Bool"    -> <<"B","o","o","l">>
      [] v.t = "List"    -> <<"L","i","s","t">>
      [] v.t = "Proc"    -> <<"P","r","o","c">>
      [] v.t = "Nil"     -> <<"N","i","l">>

\* ------------------------------------------------------------------ floats
Abs(x) == IF x < 0 THEN -x ELSE x
Sign(x) == IF x < 0 THEN -1 ELSE IF x > 0 THEN 1 ELSE 0

RECURSIVE Gcd(_, _)
Gcd(a, b) == IF b = 0 THEN a ELSE Gcd(b, a % b)

\* the Float n/d in lowest terms with a positive denominator (d # 0)
Ratio(n, d) ==
    LET g == Gcd(Abs(n), Abs(d))
    IN  Float(Sign(d) * (n \div g), Abs(d) \div g)

NAN     == Float(0, 0)
INF     == Float(1, 0)
NEG_INF == Float(-1, 0)
IsNaN(x) == x.d = 0 /\ x.n = 0
IsInf(x) == x.d = 0 /\ x.n # 0

\* i64 as f64
AsF64(a) == Float(a, 1)

\* integer division rounding toward zero, and the remainder with the sign of
\* the dividend (b # 0)
TruncDiv(a, b) == Sign(a) * Sign(b) * (Abs(a) \div Abs(b))
TruncRem(a, b) == a - b * TruncDiv(a, b)

FAdd(x, y) ==
    IF IsNaN(x) \/ IsNaN(y) THEN NAN
    ELSE IF IsInf(x) /\ IsInf(y) THEN (IF x.n = y.n THEN x ELSE NAN)
    ELSE IF IsInf(x) THEN x
    ELSE IF IsInf(y) THEN y
    ELSE Ratio(x.n * y.d + y.n * x.d, x.d * y.d)

FNeg(x) == Float(-x.n, x.d)
FSub(x, y) == FAdd(x, FNeg(y))

FMul(x, y) ==
    IF IsNaN(x) \/ IsNaN(y) THEN NAN
    ELSE IF IsInf(x) \/ IsInf(y)
         THEN (IF x.n = 0 \/ y.n = 0 THEN NAN ELSE Float(Sign(x.n) * Sign(y.n), 0))
    ELSE Ratio(x.n * y.n, x.d * y.d)

FDiv(x, y) ==
    IF IsNaN(x) \/ IsNaN(y) THEN NAN
    ELSE IF IsInf(x) THEN (IF IsInf(y) THEN NAN
                           ELSE Float(Sign(x.n) * (IF y.n < 0 THEN -1 ELSE 1), 0))
    ELSE IF IsInf(y) THEN Float(0, 1)
    ELSE IF y.n = 0 THEN (IF x.n = 0 THEN NAN ELSE Float(Sign(x.n), 0))
    ELSE Ratio(x.n * y.d, x.d * y.n)

FRem(x, y) ==
    IF IsNaN(x) \/ IsNaN(y) \/ IsInf(x) THEN NAN
    ELSE IF IsInf(y) THEN x
    ELSE IF y.n = 0 THEN NAN
    ELSE LET q == TruncDiv(x.n * y.d, x.d * y.n)
         IN  Ratio(x.n * y.d - q * y.n * x.d, x.d * y.d)

\* f64 ==, <, on the rationals; NaN compares unequal and unordered
FEq(x, y) == ~IsNaN(x) /\ ~IsNaN(y) /\ x.n = y.n /\ x.d = y.d
FLt(x, y) ==
    /\ ~IsNaN(x) /\ ~IsNaN(y)
    /\ IF IsInf(x) \/ IsInf(y)
       THEN (IF IsInf(x) /\ IsInf(y) THEN x.n < y.n
             ELSE IF IsInf(x) THEN x.n < 0 ELSE y.n > 0)
       ELSE x.n * y.d < y.n * x.d

\* -------------------------------------------------------------------- text
\* a word of the source as text: the characters of the string literal
Text(word) ==
    CASE word = "define" -> <<"d", "e", "f", "i", "n", "e">>
      [] word = "undef" -> <<"u", "n", "d", "e", "f">>
      [] word = "let" -> <<"l", "e", "t">>
      [] word = "lambda" -> <<"l", "a", "m", "b", "d", "a">>
      [] word = "if" -> <<"i", "f">>
      [] word = "cond" -> <<"c", "o", "n", "d">>
      [] word = "type" -> <<"t", "y", "p", "e">>
      [] word = "quote" -> <<"q", "u", "o", "t", "e">>
      [] word = "eval" -> <<"e", "v", "a", "l">>
      [] word = "env" -> <<"e", "n", "v">>
      [] word = "+" -> <<"+">>
      [] word = "-" -> <<"-">>
      [] word = "*" -> <<"*">>
      [] word = "/" -> <<"/">>
      [] word = "modulo" -> <<"m", "o", "d", "u", "l", "o">>
      [] word = "=" -> <<"=">>
      [] word = "!=" -> <<"!", "=">>
      [] word = ">" -> <<">">>
      [] word = ">=" -> <<">", "=">>
      [] word = "<" -> <<"<">>
      [] word = "<=" -> <<"<", "=">>
      [] word = "and" -> <<"a", "n", "d">>
      [] word = "or" -> <<"o", "r">>
      [] word = "not" -> <<"n", "o", "t">>
      [] word = "list-ref" -> <<"l", "i", "s", "t", "-", "r", "e", "f">>
      [] word = "append" -> <<"a", "p", "p", "e", "n", "d">>
      [] word = "car" -> <<"c", "a", "r">>
      [] word = "cdr" -> <<"c", "d", "r">>
      [] word = "length" -> <<"l", "e", "n", "g", "t", "h">>
      [] word = "cons" -> <<"c", "o", "n", "s">>
      [] word = "rand" -> <<"r", "a", "n", "d">>
      [] word = "cat" -> <<"c", "a", "t">>
      [] word = "uppercase" -> <<"u", "p", "p", "e", "r", "c", "a", "s", "e">>
      [] word = "lowercase" -> <<"l", "o", "w", "e", "r", "c", "a", "s", "e">>
      [] word = "nil" -> <<"n", "i", "l">>
      [] word = "else" -> <<"e", "l", "s", "e">>
      [] word = "pi" -> <<"p", "i">>
      [] word = "e" -> <<"e">>
      [] word = "NAN" -> <<"N", "A", "N">>
      [] word = "INF" -> <<"I", "N", "F">>
      [] word = "-INF" -> <<"-", "I", "N", "F">>
      [] word = "MAX" -> <<"M", "A", "X">>
      [] word = "MIN" -> <<"M", "I", "N">>
      [] word = "x" -> <<"x">>
      [] word = "y" -> <<"y">>
      [] word = "f" -> <<"f">>
      [] word = "g" -> <<"g">>
      [] word = "k" -> <<"k">>
      [] word = "u" -> <<"u">>
      [] word = "a" -> <<"a">>
      [] word = "b" -> <<"b">>
      [] word = "r" -> <<"r">>
      [] word = "z" -> <<"z">>

\* the registry's names in table order; the first match wins
BUILTINS ==
    <<Text("define"), Text("undef"), Text("let"), Text("lambda"), Text("if"), Text("cond"),
      Text("type"), Text("quote"), Text("eval"), Text("env"), Text("+"), Text("-"),
      Text("*"), Text("/"), Text("modulo"), Text("="), Text("!="), Text(">"),
      Text(">="), Text("<"), Text("<="), Text("and"), Text("or"), Text("not"),
      Text("list-ref"), Text("append"), Text("car"), Text("cdr"), Text("length"), Text("cons"),
      Text("rand"), Text("cat"), Text("uppercase"), Text("lowercase")>>

\* the variadic sentinel parameter name
DOT == <<".">>
ANONYMOUS == <<"<anonymous procedure>">>

\* ------------------------------------------------------------------ errors
ProcError(name, msg) == [name |-> name, msg |-> msg, e |-> "ProcError"]
IndexOutOfBounds(index) == [e |-> "IndexOutOfBounds", index |-> index]
TypeError(name, expected, got) ==
    [name |-> name, e |-> "TypeError", expected |-> expected, got |-> got]
UncallableValue(name, typename) ==
    [name |-> name, e |-> "UncallableValue", typename |-> typename]
WrongNumArgs(name, expected, got) ==
    [name |-> name, e |-> "WrongNumArgs", expected |-> expected, got |-> got]

\* the run-time error family of errors.rs
IsRunError(err) ==
    \/ err.e = "ProcError"
    \/ err.e = "IndexOutOfBounds"
    \/ err.e = "TypeError"
    \/ err.e = "UncallableValue"
    \/ err.e = "WrongNumArgs"

\* the parse-time error family of errors.rs
Empty == [e |-> "Empty"]
MismatchedParens == [e |-> "MismatchedParens"]
ErroneousToken(token) == [e |-> "ErroneousToken", token |-> token]

\* the tokens of parser.rs
Item(s) == [s |-> s, t |-> "Item"]
LeftParen == [t |-> "LeftParen"]
RightParen == [t |-> "RightParen"]

\* ----------------------------------------------------------------- results
Ok(st, v)    == [v |-> v, st |-> st, kind |-> "Ok"]
Err(st, e)   == [v |-> e, st |-> st, kind |-> "Err"]
Panic(st, m) == [v |-> [msg |-> m, e |-> "panic"], st |-> st, kind |-> "Panic"]
StackOverflow(st) == [v |-> [e |-> "stack overflow"], st |-> st, kind |-> "StackOverflow"]

\* the interpreter state an evaluation threads through its calls: the heap of
\* frames, the procedures created so far, the observations of this run, the
\* build's integer-overflow checks and the random source
State(heap, procs, seen, checks, rnd) ==
    [frames |-> heap, lambdas |-> procs, log |-> seen, overflow_checks |-> checks, rnd |-> rnd]

\* a procedure and the frame whose lambda created it
Creation(proc, frame) == [proc |-> proc, frame |-> frame]

\* the outcome of a machine operation: a value, or the panic it ends in
Computed(v) == [v |-> v, ok |-> TRUE]
Trapped(msg) == [msg |-> msg, ok |-> FALSE]
\* the outcome of an argument check
Passed == [ok |-> TRUE]
Failed(err) == [err |-> err, ok |-> FALSE]
\* the frame a call has bound its parameters in
Bound(env) == [env |-> env, ok |-> TRUE]
\* what the reader makes of a token stream: a tree and the tokens left, a
\* ParseError, or the panic it ends in
Parsed(v, rest) == [v |-> v, kind |-> "Ok", rest |-> rest]
ParseFailed(e) == [v |-> e, kind |-> "Err"]
ParsePanic(msg) == [v |-> [msg |-> msg, e |-> "panic"], kind |-> "Panic"]
\* a usize: its value, and whether the conversion from i64 wrapped
Usize(v, wrap) == [v |-> v, wrap |-> wrap]

\* ------------------------------------------------------------ observations
\* What one evaluation does, recorded in order; lvl is the depth of the eval
\* call that does it.
OnEval(lvl, env, e) == [env |-> env, e |-> e, lvl |-> lvl, k |-> "eval"]
OnReturn(k, lvl, kind, v) == [v |-> v, kind |-> kind, lvl |-> lvl, k |-> k]
OnGet(lvl, env, name, v, heap) ==
    [frames |-> heap, env |-> env, v |-> v, name |-> name, lvl |-> lvl, k |-> "get"]
OnMutation(k, lvl, env, name, pre, post) ==
    [env |-> env, name |-> name, lvl |-> lvl, k |-> k, pre |-> pre, post |-> post]
OnFrame(lvl, by, id, parent, bindings) ==
    [vars |-> bindings, lvl |-> lvl, k |-> "frame", by |-> by, id |-> id, parent |-> parent]
OnCall(lvl, proc, name, args) ==
    [name |-> name, proc |-> proc, lvl |-> lvl, k |-> "call", args |-> args]
OnMath(lvl, op, args, kind, v) ==
    [v |-> v, kind |-> kind, lvl |-> lvl, k |-> "math", args |-> args, op |-> op]
OnListRef(lvl, list, idx, kind, v) ==
    [v |-> v, kind |-> kind, lvl |-> lvl, k |-> "list_ref", list |-> list, idx |-> idx]
OnToBool(lvl, by, arg, b) == [b |-> b, lvl |-> lvl, k |-> "to_bool", by |-> by, arg |-> arg]
OnRead(code, tokens, kind, v) ==
    [v |-> v, kind |-> kind, k |-> "read", code |-> code, tokens |-> tokens]
OnNot(lvl, arg, v) == [v |-> v, lvl |-> lvl, k |-> "not", arg |-> arg]

\* one more observation in the log of the running evaluation
Log(st, ev) == [st EXCEPT !.log = Append(@, ev)]

\* the result out, observed as the return k of the call at depth d
Returned(out, k, d) ==
    [out EXCEPT !.st = Log(@, OnReturn(k, d, out.kind, out.v))]

\* ------------------------------------------------------------- environment
EmptyVars == [x \in {} |-> Nil]

Env_new(parent) == [vars |-> EmptyVars, parent |-> parent]

\* Env::get, had it asked the parent before the frame itself
RECURSIVE Env_get_parent_first(_, _, _)
Env_get_parent_first(fr, env, var_name) ==
    LET up == IF fr[env].parent # 0
              THEN Env_get_parent_first(fr, fr[env].parent, var_name)
              ELSE Str(var_name)
    IN  IF up # Str(var_name) \/ var_name \notin DOMAIN fr[env].vars
        THEN up
        ELSE fr[env].vars[var_name]

RECURSIVE Env_get(_, _, _)
Env_get(fr, env, var_name) ==
    IF var_name \in DOMAIN fr[env].vars
    THEN fr[env].vars[var_name]
    ELSE IF fr[env].parent # 0
         THEN Env_get(fr, fr[env].parent, var_name)
         ELSE Str(var_name)

\* Env::define and Env::undefine act on one frame (&mut self)
Env_define(self, var_name, value) ==
    [self EXCEPT !.vars =
        [x \in DOMAIN @ \cup {var_name} |-> IF x = var_name THEN value ELSE @[x]]]

Env_undefine(self, var_name) ==
    [self EXCEPT !.vars = [x \in DOMAIN @ \ {var_name} |-> @[x]]]

\* --------------------------------------------------------- text of a value
Digit(n) == <<"0","1","2","3","4","5","6","7","8","9">>[n + 1]

RECURSIVE NatText(_)
NatText(n) == IF n < 10 THEN <<Digit(n)>> ELSE NatText(n \div 10) \o <<Digit(n % 10)>>

\* i64::to_string
IntText(n) == IF n < 0 THEN <<"-">> \o NatText(-n) ELSE NatText(n)

\* the digits after the decimal point of r/d, r < d
RECURSIVE FracText(_, _)
FracText(r, d) ==
    IF r = 0 THEN <<>>
    ELSE <<Digit((r * 10) \div d)>> \o FracText((r * 10) % d, d)

\* f64::to_string, for the values whose decimal expansion ends
FloatText(x) ==
    IF IsNaN(x) THEN <<"N","a","N">>
    ELSE IF IsInf(x) THEN (IF x.n > 0 THEN <<"i","n","f">> ELSE <<"-","i","n","f">>)
    ELSE (IF x.n < 0 THEN <<"-">> ELSE <<>>)
         \o NatText(Abs(x.n) \div x.d)
         \o (IF Abs(x.n) % x.d = 0 THEN <<>> ELSE <<".">> \o FracText(Abs(x.n) % x.d, x.d))

RECURSIVE join(_, _)
join(texts, sep) ==
    IF Len(texts) = 0 THEN <<>>
    ELSE IF Len(texts) = 1 THEN texts[1]
    ELSE texts[1] \o sep \o join(Tail(texts), sep)

RECURSIVE serialize(_)
serialize(v) ==
    CASE v.t = "Symbol"  -> v.s
      [] v.t = "Str"     -> <<"\"">> \o v.s \o <<"\"">>
      [] v.t = "Integer" -> IntText(v.n)
      [] v.t = "Float"   -> FloatText(v)
      [] v.t = "Bool"    -> IF v.b THEN <<"#","t">> ELSE <<"#","f">>
      [] v.t = "Nil"     -> <<"n","i","l">>
      [] v.t = "List"    ->
            <<"(">> \o join([i \in 1..Len(v.l) |-> serialize(v.l[i])], <<" ">>) \o <<")">>
      [] v.t = "Proc"    ->
            <<"(","l","a","m","b","d","a"," ","(">> \o join(v.params, <<" ">>)
            \o <<")"," ">> \o serialize(v.body) \o <<")">>

RECURSIVE to_string(_)
to_string(v) ==
    CASE v.t = "Str"  -> v.s
      [] v.t = "Proc" ->
            <<"(","l","a","m","b","d","a"," ","(">> \o join(v.params, <<" ">>)
            \o <<")"," ">> \o to_string(v.body) \o <<")">>
      [] OTHER -> serialize(v)

\* ------------------------------------------------------------------ reader
\* push_item: the pending item, if any, becomes a token (the caller clears it)
push_item(item, tokens) == IF Len(item) # 0 THEN Append(tokens, Item(item)) ELSE tokens

\* the loop of tokenize over string[i..]: in_string is string_state, escaped
\* is escaped_state
RECURSIVE tokenize_loop(_, _, _, _, _, _)
tokenize_loop(string, i, tokens, item, escaped, in_string) ==
    IF i > Len(string) THEN push_item(item, tokens)
    ELSE LET c == string[i]
         IN  IF ~in_string
             THEN CASE c = "(" ->
                        tokenize_loop(string, i + 1, Append(push_item(item, tokens), LeftParen),
                                      <<>>, escaped, in_string)
                    [] c = ")" ->
                        tokenize_loop(string, i + 1, Append(push_item(item, tokens), RightParen),
                                      <<>>, escaped, in_string)
                    [] c = " " ->
                        tokenize_loop(string, i + 1, push_item(item, tokens), <<>>,
                                      escaped, in_string)
                    [] c = "\"" ->
                        tokenize_loop(string, i + 1, tokens, Append(item, "\""), escaped, TRUE)
                    [] c = ";" -> push_item(item, tokens)
                    [] OTHER ->
                        tokenize_loop(string, i + 1, tokens, Append(item, c), escaped, in_string)
             ELSE IF ~escaped
             THEN CASE c = "\\" ->
                        tokenize_loop(string, i + 1, tokens, item, TRUE, in_string)
                    [] c = "\"" ->
                        tokenize_loop(string, i + 1, push_item(Append(item, "\""), tokens),
                                      <<>>, escaped, FALSE)
                    [] OTHER ->
                        tokenize_loop(string, i + 1, tokens, Append(item, c), escaped, in_string)
             ELSE tokenize_loop(string, i + 1, tokens, item \o <<"\\", c>>, FALSE, in_string)

tokenize(string) == tokenize_loop(string, 1, <<>>, <<>>, FALSE, FALSE)

\* the value of a decimal digit, 10 for any other character
DigitValue(c) ==
    IF \E n \in 0..9 : Digit(n) = c THEN CHOOSE n \in 0..9 : Digit(n) = c ELSE 10

\* the number a non-empty run of decimal digits spells
RECURSIVE DigitsValue(_)
DigitsValue(digits) ==
    IF Len(digits) = 0 THEN 0
    ELSE 10 * DigitsValue(SubSeq(digits, 1, Len(digits) - 1)) + DigitValue(digits[Len(digits)])

AllDigits(text) == \A i \in 1..Len(text) : DigitValue(text[i]) < 10

RECURSIVE Pow10(_)
Pow10(n) == IF n = 0 THEN 1 ELSE 10 * Pow10(n - 1)

\* str::parse::<f64> on the text after its sign: digits with at most one
\* point and at least one digit, or the words inf and NaN (exponents are not
\* modelled)
parse_f64_unsigned(text) ==
    IF text = <<"i","n","f">> THEN Computed(INF)
    ELSE IF text = <<"N","a","N">> THEN Computed(NAN)
    ELSE LET points == {i \in 1..Len(text) : text[i] = "."}
             p == IF points = {} THEN Len(text) + 1 ELSE CHOOSE i \in points : TRUE
             whole == SubSeq(text, 1, p - 1)
             fraction == SubSeq(text, p + 1, Len(text))
         IN  IF Cardinality(points) <= 1 /\ AllDigits(whole) /\ AllDigits(fraction)
                /\ Len(whole) + Len(fraction) > 0
             THEN Computed(Ratio(DigitsValue(whole \o fraction), Pow10(Len(fraction))))
             ELSE Trapped(<<"invalid float literal">>)

parse_f64(text) ==
    IF Len(text) = 0 THEN Trapped(<<"cannot parse float from empty string">>)
    ELSE IF text[1] = "-"
         THEN LET r == parse_f64_unsigned(Tail(text))
              IN  IF r.ok THEN Computed(FNeg(r.v)) ELSE r
    ELSE IF text[1] = "+" THEN parse_f64_unsigned(Tail(text))
    ELSE parse_f64_unsigned(text)

\* Value::atomize.  The source builds Number(n) from the parsed f64; the Value
\* that holds an f64 is Float.
atomize(token) ==
    IF Len(token) > 1 /\ token[1] = "\"" /\ token[Len(token)] = "\""
    THEN Str(SubSeq(token, 2, Len(token) - 1))
    ELSE IF parse_f64(token).ok THEN parse_f64(token).v
    ELSE IF token = <<"#","t">> THEN Bool(TRUE)
    ELSE IF token = <<"#","f">> THEN Bool(FALSE)
    ELSE IF token = <<"n","i","l">> THEN Nil
    ELSE Symbol(token)

\* Value::from_tokens; from_tokens_list is its while loop, which collects the
\* expressions up to the closing paren
RECURSIVE from_tokens(_), from_tokens_list(_, _, _)
from_tokens(tokens) ==
    IF Len(tokens) = 0
    THEN ParsePanic(<<"removal index (is 0) should be < len (is 0)">>)
    ELSE LET token == Head(tokens)
         IN  CASE token.t = "LeftParen" -> from_tokens_list(Tail(tokens), <<>>, FALSE)
               [] token.t = "RightParen" -> ParseFailed(ErroneousToken(<<")">>))
               [] OTHER ->
                    IF token.s = <<"'">>
                    THEN IF Len(tokens) = 1
                         THEN ParsePanic(<<"removal index (is 0) should be < len (is 0)">>)
                         ELSE IF tokens[2].t # "LeftParen"
                         THEN ParseFailed(ErroneousToken(<<"'">>))
                         ELSE from_tokens_list(SubSeq(tokens, 3, Len(tokens)), <<>>, TRUE)
                    ELSE Parsed(atomize(token.s), Tail(tokens))

from_tokens_list(tokens, list, quoted) ==
    IF Len(tokens) = 0 THEN ParsePanic(<<"index out of bounds">>)
    ELSE IF tokens[1].t = "RightParen"
    THEN Parsed(IF quoted THEN List(<<Symbol(Text("quote")), List(list)>>) ELSE List(list),
                Tail(tokens))
    ELSE LET r == from_tokens(tokens)
         IN  IF r.kind # "Ok" THEN r
             ELSE from_tokens_list(r.rest, Append(list, r.v), quoted)

\* the parens of one kind in a token stream
CountTokens(tokens, t) == Cardinality({i \in 1..Len(tokens) : tokens[i].t = t})

\* Value::new
Value_new(s) ==
    LET tokens == tokenize(s)
    IN  IF Len(tokens) = 0 THEN ParseFailed(Empty)
        ELSE IF CountTokens(tokens, "LeftParen") = CountTokens(tokens, "RightParen")
        THEN from_tokens(tokens)
        ELSE ParseFailed(MismatchedParens)

\* Value::to_bool
to_bool(v) ==
    CASE v.t = "Bool"    -> v.b
      [] v.t = "Nil"     -> FALSE
      [] v.t = "List"    -> Len(v.l) = 0
      [] v.t = "Integer" -> v.n # 0
      [] v.t = "Float"   -> ~FEq(v, Float(0, 1))
      [] OTHER -> TRUE

\* impl PartialEq for Value
ValueEq(a, b) ==
    CASE a.t = "Bool" /\ b.t = "Bool"       -> a.b = b.b
      [] a.t = "Integer" /\ b.t = "Integer" -> a.n = b.n
      [] a.t = "Float" /\ b.t = "Float"     -> FEq(a, b)
      [] a.t = "Integer" /\ b.t = "Float"   -> FEq(AsF64(a.n), b)
      [] a.t = "Float" /\ b.t = "Integer"   -> FEq(a, AsF64(b.n))
      [] a.t = "Symbol" /\ b.t = "Symbol"   -> a.s = b.s
      [] a.t = "Str" /\ b.t = "Str"         -> a.s = b.s
      [] a.t = "Nil" /\ b.t = "Nil"         -> TRUE
      [] OTHER -> FALSE

\* impl PartialOrd for Value: "Less", "Equal", "Greater", or "None"
FloatCmp(x, y) ==
    IF FLt(x, y) THEN "Less"
    ELSE IF FLt(y, x) THEN "Greater"
    ELSE IF FEq(x, y) THEN "Equal" ELSE "None"

partial_cmp(a, b) ==
    CASE a.t = "Integer" /\ b.t = "Integer" ->
            IF a.n < b.n THEN "Less" ELSE IF a.n > b.n THEN "Greater" ELSE "Equal"
      [] a.t = "Float" /\ b.t = "Float"     -> FloatCmp(a, b)
      [] a.t = "Integer" /\ b.t = "Float"   -> FloatCmp(AsF64(a.n), b)
      [] a.t = "Float" /\ b.t = "Integer"   -> FloatCmp(a, AsF64(b.n))
      [] OTHER -> "None"

\* -------------------------------------------------------------- arithmetic
\* The operators of arithmetic.rs on two numbers: [ok |-> TRUE, v |-> value],
\* or [ok |-> FALSE, msg |-> text] where the machine operation panics.
\* i64 results stay far inside 64 bits for the operands of this model.

Add(a, b) ==
    CASE a.t = "Integer" /\ b.t = "Integer" -> Computed(Integer(a.n + b.n))
      [] a.t = "Float" /\ b.t = "Float"     -> Computed(FAdd(a, b))
      [] a.t = "Integer" /\ b.t = "Float"   -> Computed(FAdd(AsF64(a.n), b))
      [] a.t = "Float" /\ b.t = "Integer"   -> Computed(FAdd(a, AsF64(b.n)))
      [] OTHER -> Trapped(<<"unreachable">>)

Sub(a, b) ==
    CASE a.t = "Integer" /\ b.t = "Integer" -> Computed(Integer(a.n - b.n))
      [] a.t = "Float" /\ b.t = "Float"     -> Computed(FSub(a, b))
      [] a.t = "Integer" /\ b.t = "Float"   -> Computed(FSub(AsF64(a.n), b))
      [] a.t = "Float" /\ b.t = "Integer"   -> Computed(FSub(a, AsF64(b.n)))
      [] OTHER -> Trapped(<<"unreachable">>)

Mul(a, b) ==
    CASE a.t = "Integer" /\ b.t = "Integer" -> Computed(Integer(a.n * b.n))
      [] a.t = "Float" /\ b.t = "Float"     -> Computed(FMul(a, b))
      [] a.t = "Integer" /\ b.t = "Float"   -> Computed(FMul(AsF64(a.n), b))
      [] a.t = "Float" /\ b.t = "Integer"   -> Computed(FMul(a, AsF64(b.n)))
      [] OTHER -> Trapped(<<"unreachable">>)

Div(a, b) ==
    CASE a.t = "Integer" /\ b.t = "Integer" ->
            IF b.n = 0 THEN Trapped(<<"attempt to divide by zero">>)
            ELSE Computed(Integer(TruncDiv(a.n, b.n)))
      [] a.t = "Float" /\ b.t = "Float"     -> Computed(FDiv(a, b))
      [] a.t = "Integer" /\ b.t = "Float"   -> Computed(FDiv(AsF64(a.n), b))
      [] a.t = "Float" /\ b.t = "Integer"   -> Computed(FDiv(a, AsF64(b.n)))
      [] OTHER -> Trapped(<<"unreachable">>)

Rem(a, modulus) ==
    CASE a.t = "Integer" /\ modulus.t = "Integer" ->
            IF modulus.n = 0
            THEN Trapped(<<"attempt to calculate the remainder with a divisor of zero">>)
            ELSE Computed(Integer(TruncRem(a.n, modulus.n)))
      [] a.t = "Float" /\ modulus.t = "Float"     -> Computed(FRem(a, modulus))
      [] a.t = "Integer" /\ modulus.t = "Float"   -> Computed(FRem(AsF64(a.n), modulus))
      [] a.t = "Float" /\ modulus.t = "Integer"   -> Computed(FRem(a, AsF64(modulus.n)))
      [] OTHER -> Trapped(<<"unreachable">>)

\* ---------------------------------------------------------- builtin macros
\* check_num_args!: the error when args does not hold num elements
check_num_args(args, num, name) ==
    IF Len(args) # num
    THEN Failed(WrongNumArgs(name, num, Len(args)))
    ELSE Passed

\* extract!: the error when value is not of variant variant
extract(value, variant, proc) ==
    IF value.t = variant
    THEN Passed
    ELSE Failed(TypeError(proc, <<variant>>, get_type(value)))

\* success!()
success == Str(<<"s","u","c","c","e","s","s">>)

\* --------------------------------------------------------------- evaluator
RECURSIVE eval(_, _, _, _)
RECURSIVE run_proc(_, _, _, _)
RECURSIVE eval_list(_, _, _, _)
RECURSIVE LispProc_call(_, _, _, _, _)
RECURSIVE call_builtin(_, _, _, _, _)
RECURSIVE local_bind_loop(_, _, _, _, _, _)
RECURSIVE cond_loop(_, _, _, _, _)

\* the constants resolve_symbol answers itself; pi, e, MAX and MIN stand for
\* f64 values that are no small rational
F64_PI  == Float(355, 113)
F64_E   == Float(193, 71)
F64_MAX == Float(1000000000, 1)
F64_MIN == Float(-1000000000, 1)

\* resolve_symbol, had it asked the root frame instead of the current one
resolve_symbol_in_root(symbol, env, st, d) ==
    CASE symbol = Text("nil")     -> Ok(st, Nil)
      [] symbol = Text("else")    -> Ok(st, Bool(TRUE))
      [] symbol = Text("pi")      -> Ok(st, F64_PI)
      [] symbol = Text("e")       -> Ok(st, F64_E)
      [] symbol = Text("NAN")     -> Ok(st, NAN)
      [] symbol = Text("INF")     -> Ok(st, INF)
      [] symbol = Text("-INF") -> Ok(st, NEG_INF)
      [] symbol = Text("MAX")     -> Ok(st, F64_MAX)
      [] symbol = Text("MIN")     -> Ok(st, F64_MIN)
      [] OTHER ->
            LET v == Env_get(st.frames, 1, symbol)
            IN  Ok(Log(st, OnGet(d, env, symbol, v, st.frames)), v)

\* resolve a stored symbol to a value
resolve_symbol(symbol, env, st, d) ==
    CASE symbol = Text("nil")     -> Ok(st, Nil)
      [] symbol = Text("else")    -> Ok(st, Bool(TRUE))
      [] symbol = Text("pi")      -> Ok(st, F64_PI)
      [] symbol = Text("e")       -> Ok(st, F64_E)
      [] symbol = Text("NAN")     -> Ok(st, NAN)
      [] symbol = Text("INF")     -> Ok(st, INF)
      [] symbol = Text("-INF") -> Ok(st, NEG_INF)
      [] symbol = Text("MAX")     -> Ok(st, F64_MAX)
      [] symbol = Text("MIN")     -> Ok(st, F64_MIN)
      [] OTHER ->
            LET v == Env_get(st.frames, env, symbol)
            IN  Ok(Log(st, OnGet(d, env, symbol, v, st.frames)), v)

\* ---------------------------------------------------- builtins: essentials
\* the record that proc was created in frame env, kept once
Created(st, proc, env) ==
    LET entry == Creation(proc, env)
    IN  IF \E i \in 1..Len(st.lambdas) : st.lambdas[i] = entry
        THEN st
        ELSE [st EXCEPT !.lambdas = Append(@, entry)]

\* lambda, had it captured the root frame instead of the current one
lambda_captures_root(args, env, st, d) ==
    LET n == check_num_args(args, 2, <<"lambda">>) IN
    IF ~n.ok THEN Err(st, n.err) ELSE
    LET x == extract(args[1], "List", <<"lambda">>) IN
    IF ~x.ok THEN Err(st, x.err) ELSE
    LET params == args[1].l
        bad == {i \in 1..Len(params) : params[i].t # "Symbol"}
    IN  IF bad # {}
        THEN LET i == CHOOSE j \in bad : \A m \in bad : j <= m
             IN  Err(st, extract(params[i], "Symbol", <<"lambda (in params)">>).err)
        ELSE LET proc == Proc([i \in 1..Len(params) |-> params[i].s], args[2], 1)
             IN  Ok(Created(st, proc, env), proc)

\* create a function
lambda(args, env, st, d) ==
    LET n == check_num_args(args, 2, <<"lambda">>) IN
    IF ~n.ok THEN Err(st, n.err) ELSE
    LET x == extract(args[1], "List", <<"lambda">>) IN
    IF ~x.ok THEN Err(st, x.err) ELSE
    LET params == args[1].l
        bad == {i \in 1..Len(params) : params[i].t # "Symbol"}
    IN  IF bad # {}
        THEN LET i == CHOOSE j \in bad : \A m \in bad : j <= m
             IN  Err(st, extract(params[i], "Symbol", <<"lambda (in params)">>).err)
        ELSE LET proc == Proc([i \in 1..Len(params) |-> params[i].s], args[2], env)
             IN  Ok(Created(st, proc, env), proc)

\* define, had it bound the name before its value is known: a failing
\* value leaves the name bound to nil
define_value_early(name, r, env, d) ==
    LET post == [r.st.frames EXCEPT
                    ![env] = Env_define(@, name, IF r.kind = "Ok" THEN r.v ELSE Nil)]
        st == Log([r.st EXCEPT !.frames = post],
                  OnMutation("define", d, env, name, r.st.frames, post))
    IN  IF r.kind = "Ok" THEN Ok(st, success) ELSE [r EXCEPT !.st = st]

\* env.borrow_mut().define(name, value) on the outcome r of the value's
\* evaluation, and success!()
define_value(name, r, env, d) ==
    IF r.kind # "Ok" THEN r ELSE
    LET post == [r.st.frames EXCEPT ![env] = Env_define(@, name, r.v)]
    IN  Ok(Log([r.st EXCEPT !.frames = post],
               OnMutation("define", d, env, name, r.st.frames, post)),
           success)

\* save a value to the Env
define(args, env, st, d) ==
    LET n == check_num_args(args, 2, <<"define">>) IN
    IF ~n.ok THEN Err(st, n.err) ELSE
    CASE args[1].t = "Symbol" ->
            define_value(args[1].s, eval(args[2], env, st, d + 1), env, d)
      [] args[1].t = "List" ->
            LET list == args[1].l IN
            IF Len(list) < 1
            THEN Err(st, ProcError(<<"define">>, <<"cannot define an empty list">>))
            ELSE
            LET x == extract(list[1], "Symbol", <<"define">>) IN
            IF ~x.ok THEN Err(st, x.err) ELSE
            define_value(list[1].s, lambda(<<List(Tail(list)), args[2]>>, env, st, d), env, d)
      [] OTHER -> Err(st, ProcError(<<"define">>, <<"only symbols can be redefined">>))

\* undef, had it removed the nearest binding on the chain instead of the
\* local one
RECURSIVE binding_frame(_, _, _)
binding_frame(fr, env, var_name) ==
    IF var_name \in DOMAIN fr[env].vars \/ fr[env].parent = 0 THEN env
    ELSE binding_frame(fr, fr[env].parent, var_name)

undef_nearest(args, env, st, d) ==
    LET n == check_num_args(args, 1, <<"undef">>) IN
    IF ~n.ok THEN Err(st, n.err) ELSE
    LET x == extract(args[1], "Symbol", <<"undef">>) IN
    IF ~x.ok THEN Err(st, x.err) ELSE
    LET at == binding_frame(st.frames, env, args[1].s)
        post == [st.frames EXCEPT ![at] = Env_undefine(@, args[1].s)]
    IN  Ok(Log([st EXCEPT !.frames = post],
               OnMutation("undef", d, env, args[1].s, st.frames, post)),
           success)

\* remove a definition from the Env
undef(args, env, st, d) ==
    LET n == check_num_args(args, 1, <<"undef">>) IN
    IF ~n.ok THEN Err(st, n.err) ELSE
    LET x == extract(args[1], "Symbol", <<"undef">>) IN
    IF ~x.ok THEN Err(st, x.err) ELSE
    LET post == [st.frames EXCEPT ![env] = Env_undefine(@, args[1].s)]
    IN  Ok(Log([st EXCEPT !.frames = post],
               OnMutation("undef", d, env, args[1].s, st.frames, post)),
           success)

\* the loop of let over the binding pairs, from the i-th on; local_env is
\* the frame under construction, not yet shared
local_bind_loop(bindings, i, local_env, env, st, d) ==
    IF i > Len(bindings) THEN Ok(st, local_env) ELSE
    LET x == extract(bindings[i], "List", <<"let (in binds list)">>) IN
    IF ~x.ok THEN Err(st, x.err) ELSE
    LET bind == bindings[i].l
        n == check_num_args(bind, 2, <<"let (in binding)">>)
    IN
    IF ~n.ok THEN Err(st, n.err) ELSE
    LET y == extract(bind[1], "Symbol", <<"let (in binding)">>) IN
    IF ~y.ok THEN Err(st, y.err) ELSE
    LET r == eval(bind[2], env, st, d + 1) IN
    IF r.kind # "Ok" THEN r ELSE
    local_bind_loop(bindings, i + 1, Env_define(local_env, bind[1].s, r.v), env, r.st, d)

\* the rest of let, had it made the bindings in the enclosing frame and
\* evaluated the body there
local_bind_body_in_place(b, body, d) ==
    IF b.kind # "Ok" THEN b ELSE
    eval(body, b.v.parent,
         [b.st EXCEPT !.frames[b.v.parent].vars =
             [x \in DOMAIN @ \cup DOMAIN b.v.vars |->
                 IF x \in DOMAIN b.v.vars THEN b.v.vars[x] ELSE @[x]]],
         d + 1)

\* the rest of let once the bindings b are made: share the frame
\* (Rc::new) and evaluate the body in it
local_bind_body(b, body, d) ==
    IF b.kind # "Ok" THEN b ELSE
    LET local_env_ref == Len(b.st.frames) + 1
    IN  eval(body, local_env_ref,
             Log([b.st EXCEPT !.frames = Append(@, b.v)],
                 OnFrame(d, "let", local_env_ref, b.v.parent, b.v.vars)),
             d + 1)

\* evaluate an expression with local, unsaved bindings
local_bind(args, env, st, d) ==
    LET n == check_num_args(args, 2, <<"let">>) IN
    IF ~n.ok THEN Err(st, n.err) ELSE
    LET x == extract(args[1], "List", <<"let">>) IN
    IF ~x.ok THEN Err(st, x.err) ELSE
    local_bind_body(local_bind_loop(args[1].l, 1, Env_new(env), env, st, d), args[2], d)

\* conditionally evaluate an expression
if_else(args, env, st, d) ==
    LET n == check_num_args(args, 3, <<"if">>) IN
    IF ~n.ok THEN Err(st, n.err) ELSE
    LET r == eval(args[1], env, st, d + 1) IN
    IF r.kind # "Ok" THEN r ELSE
    LET test == to_bool(r.v)
        st1 == Log(r.st, OnToBool(d, "if", r.v, test))
    IN  eval(IF test THEN args[2] ELSE args[3], env, st1, d + 1)

\* the loop of cond over the branches, from the i-th on
cond_loop(args, i, env, st, d) ==
    IF i > Len(args)
    THEN Err(st, ProcError(<<"cond">>,
                           <<"no branches evaluated and no else branch found">>))
    ELSE
    LET x == extract(args[i], "List", <<"cond">>) IN
    IF ~x.ok THEN Err(st, x.err) ELSE
    LET branch == args[i].l
        n == check_num_args(branch, 2, <<"cond (in branch)">>)
    IN
    IF ~n.ok THEN Err(st, n.err) ELSE
    LET r == eval(branch[1], env, st, d + 1) IN
    IF r.kind # "Ok" THEN r ELSE
    LET test == to_bool(r.v)
        st1 == Log(r.st, OnToBool(d, "cond", r.v, test))
    IN  IF test
        THEN eval(branch[2], env, st1, d + 1)
        ELSE cond_loop(args, i + 1, env, st1, d)

\* conditionally evaluate an expression (like branching)
cond(args, env, st, d) ==
    IF Len(args) < 1
    THEN Err(st, ProcError(<<"cond">>, <<"at least 1 branch required">>))
    ELSE cond_loop(args, 1, env, st, d)

\* return the type of a value as a str
builtin_get_type(args, env, st, d) ==
    LET n == check_num_args(args, 1, <<"type">>) IN
    IF ~n.ok THEN Err(st, n.err) ELSE
    LET r == eval(args[1], env, st, d + 1) IN
    IF r.kind # "Ok" THEN r ELSE Ok(r.st, Str(get_type(r.v)))

\* return an expression without evaluating it
quote(args, env, st, d) ==
    LET n == check_num_args(args, 1, <<"quote">>) IN
    IF ~n.ok THEN Err(st, n.err) ELSE Ok(st, args[1])

\* evaluate an sexp
builtin_eval(args, env, st, d) ==
    LET n == check_num_args(args, 1, <<"eval">>) IN
    IF ~n.ok THEN Err(st, n.err) ELSE
    LET r == eval_list(args, env, st, d) IN
    IF r.kind # "Ok" THEN r ELSE eval(r.v[1], env, r.st, d + 1)

\* the k-th element of a set in the iteration order of one HashMap; the
\* order is not fixed by the program, so k comes from the oracle st.rnd
RECURSIVE Pick(_, _)
Pick(S, k) ==
    LET x == CHOOSE y \in S : TRUE
    IN  IF k = 0 THEN x ELSE Pick(S \ {x}, k - 1)

RECURSIVE KeysInOrder(_, _)
KeysInOrder(S, rnd) ==
    IF S = {} THEN <<>>
    ELSE LET x == Pick(S, rnd % Cardinality(S))
         IN  <<x>> \o KeysInOrder(S \ {x}, rnd \div Cardinality(S))

\* return a list of all defined symbols
builtin_env(args, env, st, d) ==
    LET keys == KeysInOrder(DOMAIN st.frames[env].vars, st.rnd)
    IN  Ok(st, List([i \in 1..Len(keys) |-> Symbol(keys[i])]))

\* ----------------------------------------------------------- builtins: math
IsNumber(v) == v.t = "Integer" \/ v.t = "Float"

\* the binary operation math folds with
BinOp(op, acc, n) ==
    CASE op = "+" -> Add(acc, n)
      [] op = "-" -> Sub(acc, n)
      [] op = "*" -> Mul(acc, n)
      [] op = "/" -> Div(acc, n)
      [] op = "%" -> Rem(acc, n)

\* args.into_iter().fold(init, |acc, n| acc op n)
RECURSIVE fold(_, _, _)
\* the fold goes on from the outcome r of one step, unless the step panicked
fold_on(op, r, args) == IF ~r.ok THEN r ELSE fold(op, r.v, args)

fold(op, init, args) ==
    IF Len(args) = 0 THEN Computed(init)
    ELSE fold_on(op, BinOp(op, init, Head(args)), Tail(args))

\* the result res of the arithmetic on the operands args, observed
math_result(op, args, res, st, d) ==
    LET out == IF res.ok THEN Ok(st, res.v) ELSE Panic(st, res.msg)
    IN  [out EXCEPT !.st = Log(@, OnMath(d, op, args, out.kind, out.v))]

\* math once its arguments are evaluated, to r
math_numbers(op, r, d) ==
    IF r.kind # "Ok" THEN r ELSE
    LET bad == {i \in 1..Len(r.v) : ~IsNumber(r.v[i])} IN
    IF bad # {}
    THEN LET i == CHOOSE j \in bad : \A m \in bad : j <= m
         IN  Err(r.st, TypeError(<<op>>, <<"number">>, get_type(r.v[i])))
    ELSE
    LET init == Head(r.v)
        rest == Tail(r.v)
    IN  math_result(op, r.v,
                    IF op = "%" THEN Rem(init, Head(rest)) ELSE fold(op, init, rest),
                    r.st, d)

\* do some math
math(op, args, env, st, d) ==
    IF Len(args) < 2
    THEN Err(st, ProcError(<<op>>, <<"at least 2 arguments required">>))
    ELSE
    math_numbers(op, eval_list(args, env, st, d), d)

add(args, env, st, d) == math("+", args, env, st, d)
sub(args, env, st, d) == math("-", args, env, st, d)
mul(args, env, st, d) == math("*", args, env, st, d)
div(args, env, st, d) == math("/", args, env, st, d)
modulo(args, env, st, d) == math("%", args, env, st, d)

\* ---------------------------------------------------------- builtins: logic
\* do some boolean logic
logic(op, args, env, st, d) ==
    LET n == check_num_args(args, 2, <<"logic op ", op>>) IN
    IF ~n.ok THEN Err(st, n.err) ELSE
    LET r == eval_list(args, env, st, d) IN
    IF r.kind # "Ok" THEN r ELSE
    LET a == r.v[1]
        b == r.v[2]
    IN  CASE op = "="   -> Ok(r.st, Bool(ValueEq(a, b)))
          [] op = "!="  -> Ok(r.st, Bool(~ValueEq(a, b)))
          [] op = ">"   -> Ok(r.st, Bool(partial_cmp(a, b) = "Greater"))
          [] op = ">="  -> Ok(r.st, Bool(partial_cmp(a, b) = "Greater" \/ partial_cmp(a, b) = "Equal"))
          [] op = "<"   -> Ok(r.st, Bool(partial_cmp(a, b) = "Less"))
          [] op = "<="  -> Ok(r.st, Bool(partial_cmp(a, b) = "Less" \/ partial_cmp(a, b) = "Equal"))
          [] op = "and" ->
                \* && asks its right operand only when the left one is true
                LET st1 == Log(r.st, OnToBool(d, "and", a, to_bool(a)))
                    st2 == IF to_bool(a)
                           THEN Log(st1, OnToBool(d, "and", b, to_bool(b)))
                           ELSE st1
                IN  Ok(st2, Bool(to_bool(a) /\ to_bool(b)))
          [] op = "or" ->
                \* || asks its right operand only when the left one is false
                LET st1 == Log(r.st, OnToBool(d, "or", a, to_bool(a)))
                    st2 == IF to_bool(a)
                           THEN st1
                           ELSE Log(st1, OnToBool(d, "or", b, to_bool(b)))
                IN  Ok(st2, Bool(to_bool(a) \/ to_bool(b)))

eq(args, env, st, d)  == logic("=", args, env, st, d)
neq(args, env, st, d) == logic("!=", args, env, st, d)
gt(args, env, st, d)  == logic(">", args, env, st, d)
geq(args, env, st, d) == logic(">=", args, env, st, d)
lt(args, env, st, d)  == logic("<", args, env, st, d)
leq(args, env, st, d) == logic("<=", args, env, st, d)
and(args, env, st, d) == logic("and", args, env, st, d)
or(args, env, st, d)  == logic("or", args, env, st, d)

\* return the logical inverse of a bool
not(args, env, st, d) ==
    LET n == check_num_args(args, 1, <<"not">>) IN
    IF ~n.ok THEN Err(st, n.err) ELSE
    LET r == eval_list(args, env, st, d) IN
    IF r.kind # "Ok" THEN r ELSE
    LET test == to_bool(r.v[1])
        st1 == Log(r.st, OnToBool(d, "not", r.v[1], test))
    IN  Ok(Log(st1, OnNot(d, r.v[1], Bool(~test))), Bool(~test))

\* ---------------------------------------------------------- builtins: lists
\* construct a list
cons(args, env, st, d) ==
    LET n == check_num_args(args, 2, <<"cons">>) IN
    IF ~n.ok THEN Err(st, n.err) ELSE
    LET r == eval_list(args, env, st, d) IN
    IF r.kind # "Ok" THEN r ELSE
    LET x == extract(r.v[2], "List", <<"cons">>) IN
    IF ~x.ok THEN Err(r.st, x.err) ELSE
    Ok(r.st, List(<<r.v[1]>> \o r.v[2].l))

\* get the length of a list or a string
length(args, env, st, d) ==
    LET n == check_num_args(args, 1, <<"length">>) IN
    IF ~n.ok THEN Err(st, n.err) ELSE
    LET r == eval_list(args, env, st, d) IN
    IF r.kind # "Ok" THEN r ELSE
    CASE r.v[1].t = "List" -> Ok(r.st, Integer(Len(r.v[1].l)))
      [] r.v[1].t = "Str"  -> Ok(r.st, Integer(Len(r.v[1].s)))
      [] OTHER -> Err(r.st, ProcError(<<"length">>,
                        <<"expected a List or Str, got a ">> \o get_type(r.v[1])
                        \o <<" instead">>))

\* i64 as usize: the word wrap * 2^64 + v
AsUsize(i) == Usize(i, IF i < 0 THEN 1 ELSE 0)

\* list.get(idx as usize - 1), or the error, observed
list_ref_get(list, idx, st, d) ==
    LET word == AsUsize(idx)
        \* idx as usize - 1 leaves the word's range only for idx = 0
        out == IF idx = 0 /\ st.overflow_checks
               THEN Panic(st, <<"attempt to subtract with overflow">>)
               ELSE IF word.wrap = 0 /\ 1 <= idx /\ idx - 1 < Len(list)
                    THEN Ok(st, list[idx])
                    ELSE Err(st, IndexOutOfBounds(word))
    IN  [out EXCEPT !.st = Log(@, OnListRef(d, list, idx, out.kind, out.v))]

\* list-ref once its arguments are evaluated, to r
list_ref_values(r, d) ==
    IF r.kind # "Ok" THEN r ELSE
    LET x == extract(r.v[1], "List", <<"list-ref">>) IN
    IF ~x.ok THEN Err(r.st, x.err) ELSE
    LET y == extract(r.v[2], "Integer", <<"list-ref">>) IN
    IF ~y.ok THEN Err(r.st, y.err) ELSE
    list_ref_get(r.v[1].l, r.v[2].n, r.st, d)

\* get the item at an index in a list
list_ref(args, env, st, d) ==
    LET n == check_num_args(args, 2, <<"list-ref">>) IN
    IF ~n.ok THEN Err(st, n.err) ELSE
    list_ref_values(eval_list(args, env, st, d), d)

\* concatenate two lists together
append(args, env, st, d) ==
    LET n == check_num_args(args, 2, <<"append">>) IN
    IF ~n.ok THEN Err(st, n.err) ELSE
    LET r == eval_list(args, env, st, d) IN
    IF r.kind # "Ok" THEN r ELSE
    LET x == extract(r.v[1], "List", <<"append">>) IN
    IF ~x.ok THEN Err(r.st, x.err) ELSE
    LET y == extract(r.v[2], "List", <<"append">>) IN
    IF ~y.ok THEN Err(r.st, y.err) ELSE
    Ok(r.st, List(r.v[1].l \o r.v[2].l))

\* return the first element of a populated list, or nil
car(args, env, st, d) ==
    LET n == check_num_args(args, 1, <<"car">>) IN
    IF ~n.ok THEN Err(st, n.err) ELSE
    LET r == eval_list(args, env, st, d) IN
    IF r.kind # "Ok" THEN r ELSE
    LET x == extract(r.v[1], "List", <<"car">>) IN
    IF ~x.ok THEN Err(r.st, x.err) ELSE
    Ok(r.st, IF Len(r.v[1].l) > 0 THEN r.v[1].l[1] ELSE Nil)

\* return all elements of a list but the first
cdr(args, env, st, d) ==
    LET n == check_num_args(args, 1, <<"cdr">>) IN
    IF ~n.ok THEN Err(st, n.err) ELSE
    LET r == eval_list(args, env, st, d) IN
    IF r.kind # "Ok" THEN r ELSE
    LET x == extract(r.v[1], "List", <<"cdr">>) IN
    IF ~x.ok THEN Err(r.st, x.err) ELSE
    Ok(r.st, List(IF Len(r.v[1].l) > 0 THEN Tail(r.v[1].l) ELSE <<>>))

\* return a random argument or a random element of a list; the choice is the
\* oracle st.rnd
rand(args, env, st, d) ==
    IF Len(args) = 0
    THEN Err(st, ProcError(<<"rand">>, <<"at least 1 argument required">>))
    ELSE
    LET r == eval_list(args, env, st, d) IN
    IF r.kind # "Ok" THEN r ELSE
    IF Len(args) > 1
    THEN Ok(r.st, r.v[(st.rnd % Len(r.v)) + 1])
    ELSE
    LET x == extract(r.v[1], "List", <<"rand">>) IN
    IF ~x.ok THEN Err(r.st, x.err) ELSE
    Ok(r.st, IF Len(r.v[1].l) = 0 THEN Nil ELSE r.v[1].l[(st.rnd % Len(r.v[1].l)) + 1])

\* -------------------------------------------------------- builtins: strings
\* concatenate values together into a string
cat(args, env, st, d) ==
    LET r == eval_list(args, env, st, d) IN
    IF r.kind # "Ok" THEN r ELSE
    Ok(r.st, Str(join([i \in 1..Len(r.v) |-> to_string(r.v[i])], <<>>)))

LowerCase == <<"a","b","c","d","e","f","g","h","i","j","k","l","m","n","o","p","q","r","s","t","u","v","w","x","y","z">>
UpperCase == <<"A","B","C","D","E","F","G","H","I","J","K","L","M","N","O","P","Q","R","S","T","U","V","W","X","Y","Z">>

\* str::to_uppercase and str::to_lowercase on the ASCII letters
to_uppercase(s) ==
    [i \in 1..Len(s) |->
        IF \E j \in 1..Len(LowerCase) : LowerCase[j] = s[i]
        THEN UpperCase[CHOOSE j \in 1..Len(LowerCase) : LowerCase[j] = s[i]]
        ELSE s[i]]

to_lowercase(s) ==
    [i \in 1..Len(s) |->
        IF \E j \in 1..Len(UpperCase) : UpperCase[j] = s[i]
        THEN LowerCase[CHOOSE j \in 1..Len(UpperCase) : UpperCase[j] = s[i]]
        ELSE s[i]]

\* translate the characters in a string to uppercase
uppercase(args, env, st, d) ==
    LET n == check_num_args(args, 1, <<"uppercase">>) IN
    IF ~n.ok THEN Err(st, n.err) ELSE
    LET r == eval_list(args, env, st, d) IN
    IF r.kind # "Ok" THEN r ELSE
    LET x == extract(r.v[1], "Str", <<"uppercase">>) IN
    IF ~x.ok THEN Err(r.st, x.err) ELSE
    Ok(r.st, Str(to_uppercase(r.v[1].s)))

\* translate the characters in a string to lowercase
lowercase(args, env, st, d) ==
    LET n == check_num_args(args, 1, <<"lowercase">>) IN
    IF ~n.ok THEN Err(st, n.err) ELSE
    LET r == eval_list(args, env, st, d) IN
    IF r.kind # "Ok" THEN r ELSE
    LET x == extract(r.v[1], "Str", <<"lowercase">>) IN
    IF ~x.ok THEN Err(r.st, x.err) ELSE
    Ok(r.st, Str(to_lowercase(r.v[1].s)))

\* ------------------------------------------------------ closure application
\* the binding loop of LispProc::call from the i-th parameter on (1-based):
\* [ok |-> TRUE, env |-> frame], or [ok |-> FALSE, msg |-> text] where an index
\* leaves its vector
\* the binding loop, had it taken each positional argument from the back of
\* the vector (pop) instead of the front (remove(0))
RECURSIVE call_bind_pop(_, _, _, _)
call_bind_pop(params, i, args, local_env) ==
    IF i > Len(params) THEN Bound(local_env)
    ELSE IF params[i] = DOT
    THEN IF i + 1 > Len(params)
         THEN Trapped(<<"index out of bounds">>)
         ELSE Bound(Env_define(local_env, params[i + 1], List(args)))
    ELSE IF Len(args) = 0
         THEN Trapped(<<"removal index (is 0) should be < len (is 0)">>)
         ELSE call_bind_pop(params, i + 1, SubSeq(args, 1, Len(args) - 1),
                            Env_define(local_env, params[i], args[Len(args)]))

RECURSIVE call_bind(_, _, _, _)
call_bind(params, i, args, local_env) ==
    IF i > Len(params) THEN Bound(local_env)
    ELSE IF params[i] = DOT
    THEN IF i + 1 > Len(params)
         THEN Trapped(<<"index out of bounds">>)
         ELSE Bound(Env_define(local_env, params[i + 1], List(args)))
    ELSE IF Len(args) = 0
         THEN Trapped(<<"removal index (is 0) should be < len (is 0)">>)
         ELSE call_bind(params, i + 1, Tail(args),
                        Env_define(local_env, params[i], Head(args)))

\* the rest of LispProc::call once the loop has bound the parameters, to b:
\* share the frame (Rc::new) and evaluate the body in it
call_body(b, body, st, d) ==
    IF ~b.ok THEN Panic(st, b.msg) ELSE
    LET local_env_ref == Len(st.frames) + 1
    IN  eval(body, local_env_ref,
             Log([st EXCEPT !.frames = Append(@, b.env)],
                 OnFrame(d, "call", local_env_ref, b.env.parent, b.env.vars)),
             d + 1)

\* the call of self, observed on entry
Called(self, name, args, st, d) ==
    Log(st, OnCall(d, self, name, args))

\* LispProc::call, had it rejected only too few arguments
LispProc_call_at_least(self, name, args, st, d) ==
    Returned(
        IF (\A i \in 1..Len(self.params) : self.params[i] # DOT)
           /\ Len(args) < Len(self.params)
        THEN Err(Called(self, name, args, st, d),
                 WrongNumArgs(name, Len(self.params), Len(args)))
        ELSE call_body(call_bind(self.params, 1, args, Env_new(self.env)),
                       self.body, Called(self, name, args, st, d), d),
        "callret", d)

\* run a LispProc with some arguments
LispProc_call(self, name, args, st, d) ==
    Returned(
        IF (\A i \in 1..Len(self.params) : self.params[i] # DOT)
           /\ Len(args) # Len(self.params)
        THEN Err(Called(self, name, args, st, d),
                 WrongNumArgs(name, Len(self.params), Len(args)))
        ELSE call_body(call_bind(self.params, 1, args, Env_new(self.env)),
                       self.body, Called(self, name, args, st, d), d),
        "callret", d)

\* ---------------------------------------------------------------- dispatch
\* the function the i-th entry of BUILTINS holds
call_builtin(i, args, env, st, d) ==
    CASE i = 1 -> define(args, env, st, d)
      [] i = 2 -> undef(args, env, st, d)
      [] i = 3 -> local_bind(args, env, st, d)
      [] i = 4 -> lambda(args, env, st, d)
      [] i = 5 -> if_else(args, env, st, d)
      [] i = 6 -> cond(args, env, st, d)
      [] i = 7 -> builtin_get_type(args, env, st, d)
      [] i = 8 -> quote(args, env, st, d)
      [] i = 9 -> builtin_eval(args, env, st, d)
      [] i = 10 -> builtin_env(args, env, st, d)
      [] i = 11 -> add(args, env, st, d)
      [] i = 12 -> sub(args, env, st, d)
      [] i = 13 -> mul(args, env, st, d)
      [] i = 14 -> div(args, env, st, d)
      [] i = 15 -> modulo(args, env, st, d)
      [] i = 16 -> eq(args, env, st, d)
      [] i = 17 -> neq(args, env, st, d)
      [] i = 18 -> gt(args, env, st, d)
      [] i = 19 -> geq(args, env, st, d)
      [] i = 20 -> lt(args, env, st, d)
      [] i = 21 -> leq(args, env, st, d)
      [] i = 22 -> and(args, env, st, d)
      [] i = 23 -> or(args, env, st, d)
      [] i = 24 -> not(args, env, st, d)
      [] i = 25 -> list_ref(args, env, st, d)
      [] i = 26 -> append(args, env, st, d)
      [] i = 27 -> car(args, env, st, d)
      [] i = 28 -> cdr(args, env, st, d)
      [] i = 29 -> length(args, env, st, d)
      [] i = 30 -> cons(args, env, st, d)
      [] i = 31 -> rand(args, env, st, d)
      [] i = 32 -> cat(args, env, st, d)
      [] i = 33 -> uppercase(args, env, st, d)
      [] i = 34 -> lowercase(args, env, st, d)

\* eval_list, had it gone on to the remaining arguments after a failure
eval_list_to_end(args, env, st, d) ==
    IF Len(args) = 0 THEN Ok(st, <<>>) ELSE
    LET r == eval(Head(args), env, st, d + 1) IN
    LET rs == eval_list(Tail(args), env, r.st, d) IN
    IF r.kind # "Ok" THEN [r EXCEPT !.st = rs.st] ELSE
    IF rs.kind # "Ok" THEN rs ELSE Ok(rs.st, <<r.v>> \o rs.v)

\* evaluate every Value in a Vec, stopping at the first failure
eval_list(args, env, st, d) ==
    IF Len(args) = 0 THEN Ok(st, <<>>) ELSE
    LET r == eval(Head(args), env, st, d + 1) IN
    IF r.kind # "Ok" THEN r ELSE
    LET rs == eval_list(Tail(args), env, r.st, d) IN
    IF rs.kind # "Ok" THEN rs ELSE Ok(rs.st, <<r.v>> \o rs.v)

\* proc.call(name, args, env) once the arguments are evaluated, to a
apply_proc(proc, name, a, d) ==
    IF a.kind # "Ok" THEN a ELSE LispProc_call(proc, name, a.v, a.st, d)

\* what run_proc does with the value first_value a symbol resolves to
apply_value(first_value, s, rest, env, d) ==
    IF first_value.v.t = "Proc"
    THEN apply_proc(first_value.v, s, eval_list(rest, env, first_value.st, d), d)
    ELSE Err(first_value.st, UncallableValue(s, get_type(first_value.v)))

\* run_proc, had it looked the symbol up before scanning BUILTINS: a bound
\* closure of that name is called instead of the builtin
run_proc_user_first(args, env, st, d) ==
    LET first_element == Head(args)
        rest == Tail(args)
    IN
    CASE first_element.t = "Symbol" ->
            LET s == first_element.s
                hits == {i \in 1..Len(BUILTINS) : BUILTINS[i] = s}
            IN
            IF hits # {} /\ resolve_symbol(s, env, st, d).v.t # "Proc"
            THEN call_builtin(CHOOSE i \in hits : \A j \in hits : i <= j, rest, env, st, d)
            ELSE
            apply_value(resolve_symbol(s, env, st, d), s, rest, env, d)
      [] first_element.t = "List" ->
            LET r == eval(first_element, env, st, d + 1) IN
            IF r.kind # "Ok" THEN r
            ELSE eval(List(<<r.v>> \o rest), env, r.st, d + 1)
      [] first_element.t = "Proc" ->
            apply_proc(first_element, ANONYMOUS, eval_list(rest, env, st, d), d)
      [] OTHER ->
            Err(st, UncallableValue(to_string(first_element), get_type(first_element)))

\* call a process
run_proc(args, env, st, d) ==
    LET first_element == Head(args)
        rest == Tail(args)
    IN
    CASE first_element.t = "Symbol" ->
            LET s == first_element.s
                hits == {i \in 1..Len(BUILTINS) : BUILTINS[i] = s}
            IN
            IF hits # {}
            THEN call_builtin(CHOOSE i \in hits : \A j \in hits : i <= j, rest, env, st, d)
            ELSE
            apply_value(resolve_symbol(s, env, st, d), s, rest, env, d)
      [] first_element.t = "List" ->
            LET r == eval(first_element, env, st, d + 1) IN
            IF r.kind # "Ok" THEN r
            ELSE eval(List(<<r.v>> \o rest), env, r.st, d + 1)
      [] first_element.t = "Proc" ->
            apply_proc(first_element, ANONYMOUS, eval_list(rest, env, st, d), d)
      [] OTHER ->
            Err(st, UncallableValue(to_string(first_element), get_type(first_element)))

\* evaluate a structured lisp s-expression; every call is logged on entry
\* ("eval") and on return ("ret") with its depth d
eval(s_exp, env, st, d) ==
    IF d > MaxDepth THEN StackOverflow(st) ELSE
    LET st1 == Log(st, OnEval(d, env, s_exp))
    IN  Returned(
            CASE s_exp.t = "Symbol" ->
                    IF Len(s_exp.s) > 0 /\ s_exp.s[1] = "'"
                    THEN Ok(st1, Symbol(Tail(s_exp.s)))
                    ELSE resolve_symbol(s_exp.s, env, st1, d)
              [] s_exp.t = "List" ->
                    IF Len(s_exp.l) = 0 THEN Ok(st1, Nil)
                    ELSE run_proc(s_exp.l, env, st1, d)
              [] OTHER -> Ok(st1, s_exp),
            "ret", d)

\* ------------------------------------------------------------- interpreter
\* Interpreter::new: one root frame without a parent.  The build either
\* checks integer overflow (debug) or wraps (release).
Init ==
    /\ frames = <<Env_new(0)>>
    /\ lambdas = <<>>
    /\ log = <<>>
    /\ result = [kind |-> "None"]
    /\ runs = 0
    /\ alive = TRUE
    /\ overflow_checks \in BOOLEAN

\* what the outcome r of an evaluation leaves behind
Outcome(r) ==
    /\ frames' = r.st.frames
    /\ lambdas' = r.st.lambdas
    /\ log' = r.st.log
    /\ result' = [v |-> r.v, kind |-> r.kind]
    /\ alive' = (r.kind = "Ok" \/ r.kind = "Err")

\* Interpreter::run on a parsed expression: evaluate it in the root frame.
\* A panic or an exhausted stack ends the process.
Interpreter_run(sexp, rnd) ==
    /\ alive
    /\ runs < MaxRuns
    /\ Outcome(eval(sexp, 1,
                    State(frames, lambdas, <<>>, overflow_checks, rnd), 0))
    /\ runs' = runs + 1
    /\ UNCHANGED overflow_checks

\* Interpreter::run on a line that Value::new answered with read: a tree is
\* evaluated in the root frame
Interpreter_run_line(read) ==
    /\ read.kind = "Ok"
    /\ Interpreter_run(read.v, 0)

\* Interpreter::run as far as the reader's verdict on the text code: the
\* tree, the ParseError, or the panic that ends the process
Reader_run(code) ==
    /\ alive
    /\ runs < MaxRuns
    /\ log' = <<OnRead(code, tokenize(code), Value_new(code).kind, Value_new(code).v)>>
    /\ result' = [v |-> Value_new(code).v, kind |-> Value_new(code).kind]
    /\ alive' = (Value_new(code).kind # "Panic")
    /\ runs' = runs + 1
    /\ UNCHANGED <<frames, lambdas, overflow_checks>>

\* file.rs: the value the last evaluation returned is written out with
\* serialize and the text is read back with Value::new
Reader_reread ==
    /\ alive
    /\ runs < MaxRuns
    /\ Len(log) > 0
    /\ log[Len(log)].k = "ret"
    /\ result.kind = "Ok"
    /\ result.v.t # "Proc"
    /\ log' = Append(log, OnRead(serialize(result.v), tokenize(serialize(result.v)),
                                 Value_new(serialize(result.v)).kind,
                                 Value_new(serialize(result.v)).v))
    /\ result' = [v |-> Value_new(serialize(result.v)).v,
                  kind |-> Value_new(serialize(result.v)).kind]
    /\ alive' = (Value_new(serialize(result.v)).kind # "Panic")
    /\ runs' = runs + 1
    /\ UNCHANGED <<frames, lambdas, overflow_checks>>

\* ------------------------------------------------------------------ inputs
\* expressions as the reader builds them
Sym(s) == Symbol(s)
Form(kw, args) == List(<<Symbol(kw)>> \o args)
Quoted(v) == Form(Text("quote"), <<v>>)
Lambda(params, body) ==
    Form(Text("lambda"), <<List([i \in 1..Len(params) |-> Symbol(params[i])]), body>>)
Let1(name, e, body) == Form(Text("let"), <<List(<<List(<<Symbol(name), e>>)>>), body>>)
Define(name, e) == Form(Text("define"), <<Symbol(name), e>>)
DefineProc(name, params, body) ==
    Form(Text("define"),
         <<List(<<Symbol(name)>> \o [i \in 1..Len(params) |-> Symbol(params[i])]), body>>)
Undef(name) == Form(Text("undef"), <<Symbol(name)>>)
Call(name, args) == List(<<Symbol(name)>> \o args)

\* defines, undefs, lets and closures over the names x and y
ScopePrograms ==
    << Define(Text("x"), Integer(1)),
       Define(Text("x"), Integer(2)),
       Undef(Text("x")),
       Sym(Text("x")),
       Define(Text("f"), Let1(Text("x"), Integer(5), Lambda(<<>>, Sym(Text("x"))))),
       Let1(Text("x"), Integer(7), Call(Text("f"), <<>>)),
       DefineProc(Text("g"), <<Text("y")>>, Lambda(<<>>, Sym(Text("y")))),
       Let1(Text("y"), Integer(9), List(<<Call(Text("g"), <<Integer(3)>>)>>)),
       Let1(Text("x"), Integer(3), Define(Text("x"), Integer(4))),
       Let1(Text("y"), Integer(3), Undef(Text("x"))),
       Let1(Text("x"), Integer(3), Undef(Text("x"))),
       Let1(Text("x"), Integer(3), Sym(Text("x"))),
       Let1(Text("y"), Integer(3), Sym(Text("x"))),
       DefineProc(Text("k"), <<>>, Define(Text("x"), Integer(8))),
       Call(Text("k"), <<>>),
       DefineProc(Text("u"), <<Text("x")>>, Undef(Text("x"))),
       Let1(Text("x"), Integer(6), Call(Text("u"), <<Integer(0)>>)) >>

RunScope == \E i \in 1..Len(ScopePrograms) : Interpreter_run(ScopePrograms[i], 0)

\* parameter lists lambda accepts: fixed, variadic, the sentinel with and
\* without a name after it
ParamLists ==
    << <<>>, <<Text("a")>>, <<Text("a"), Text("b")>>,
       <<DOT, Text("r")>>, <<Text("a"), DOT, Text("r")>>, <<Text("a"), Text("b"), DOT, Text("r")>>,
       <<Text("a"), DOT, Text("r"), Text("z")>>,
       <<Text("a"), DOT>>, <<DOT>> >>

\* the argument expressions of a call with n arguments
ArgExprs == <<Integer(1), Str(<<"s">>), Quoted(List(<<Integer(5)>>))>>
CallArgs(n) == [j \in 1..n |-> ArgExprs[((j - 1) % Len(ArgExprs)) + 1]]
\* the most arguments a call of the session passes
MaxArgs == 3

\* the closures the session may define by name
NamedProcs == <<[params |-> <<Text("a"), Text("b")>>, name |-> Text("f")],
                [params |-> <<Text("a"), DOT, Text("r")>>, name |-> Text("g")]>>

\* an immediately applied lambda, the definition of a named closure, or a
\* call by name
RunCall ==
    \/ \E i \in 1..Len(ParamLists), n \in 0..MaxArgs :
            Interpreter_run(List(<<Lambda(ParamLists[i], Sym(Text("a")))>>
                                 \o CallArgs(n)), 0)
    \/ \E i \in 1..Len(NamedProcs) :
            Interpreter_run(DefineProc(NamedProcs[i].name, NamedProcs[i].params,
                                       Sym(Text("a"))), 0)
    \/ \E i \in 1..Len(NamedProcs), n \in 0..MaxArgs :
            Interpreter_run(Call(NamedProcs[i].name, CallArgs(n)), 0)

\* condition expressions: one of every variant a condition can evaluate to,
\* a nested if, and one that fails (z is bound nowhere, so it is no procedure)
Conditions ==
    << Bool(TRUE), Bool(FALSE), Sym(Text("nil")),
       Quoted(List(<<>>)), Quoted(List(<<Integer(1)>>)),
       Integer(0), Integer(1), Float(0, 1), Float(3, 2),
       Quoted(Symbol(Text("x"))), Str(<<"s">>), Lambda(<<>>, Integer(1)),
       Form(Text("if"), <<Integer(0), Bool(FALSE), Bool(TRUE)>>),
       Call(Text("z"), <<>>) >>

\* the two branches of an if: one of them fails, or each changes the frame
Branches ==
    << <<Integer(1), Call(Text("z"), <<>>)>>,
       <<Call(Text("z"), <<>>), Integer(2)>>,
       <<Define(Text("x"), Integer(1)), Define(Text("y"), Integer(2))>> >>

\* the second condition of and, or and cond
Seconds == <<Bool(TRUE), Quoted(List(<<>>)), Sym(Text("else"))>>

\* an if, not, and, or, cond form over the conditions
RunBranch ==
    \/ \E i \in 1..Len(Conditions), j \in 1..Len(Branches) :
            Interpreter_run(Form(Text("if"),
                                 <<Conditions[i], Branches[j][1], Branches[j][2]>>), 0)
    \/ \E i \in 1..Len(Conditions) :
            Interpreter_run(Form(Text("not"), <<Conditions[i]>>), 0)
    \/ \E i \in 1..Len(Conditions), j \in 1..Len(Seconds) :
            Interpreter_run(Form(Text("and"), <<Conditions[i], Seconds[j]>>), 0)
    \/ \E i \in 1..Len(Conditions), j \in 1..Len(Seconds) :
            Interpreter_run(Form(Text("or"), <<Conditions[i], Seconds[j]>>), 0)
    \/ \E i \in 1..Len(Conditions), j \in 1..Len(Seconds) :
            Interpreter_run(Form(Text("cond"), <<List(<<Conditions[i], Integer(1)>>),
                                                List(<<Seconds[j], Integer(2)>>)>>), 0)

\* the operators of math and the operands of a session
MathOps == <<Text("+"), Text("-"), Text("*"), Text("/"), Text("modulo")>>
Operands == <<Integer(7), Integer(4), Float(1, 2)>>
\* the most operands one arithmetic form holds
MaxOperands == 3

RunMath ==
    \E o \in 1..Len(MathOps), n \in 2..MaxOperands :
        \E f \in [1..n -> 1..Len(Operands)] :
            Interpreter_run(Form(MathOps[o], [i \in 1..n |-> Operands[f[i]]]), 0)

\* the lists and the indexes of list-ref
RefLists ==
    << <<>>, <<Integer(10)>>, <<Integer(10), Integer(20)>>,
       <<Integer(10), Integer(20), Integer(30)>> >>
\* indexes run from -MaxIndex to MaxIndex
MaxIndex == 5

RunListRef ==
    \E l \in 1..Len(RefLists), i \in (0 - MaxIndex)..MaxIndex :
        Interpreter_run(Form(Text("list-ref"), <<Quoted(List(RefLists[l])), Integer(i)>>), 0)

\* the words of a line of source, and the most words one line holds
ReadWords == << <<"(">>, <<")">>, <<"'">>, <<"a">> >>
MaxWords == 4

\* a line of up to MaxWords words, a space between two words
RunRead ==
    \E n \in 0..MaxWords :
        \E f \in [1..n -> 1..Len(ReadWords)] :
            Reader_run(join([i \in 1..n |-> ReadWords[f[i]]], <<" ">>))

\* expressions whose values are written out and read back: every kind of
\* atom, strings holding spaces, parens, a semicolon and an escaped quote,
\* nested lists, and strings and symbols that evaluation itself builds
RoundTripPrograms ==
    << Integer(7), Integer(-3), Float(1, 2), Float(-7, 4), Bool(TRUE), Bool(FALSE),
       Sym(Text("nil")), Sym(Text("NAN")), Sym(Text("INF")),
       Quoted(Symbol(Text("x"))), Sym(Text("u")),
       Str(<<>>), Str(<<"s">>), Str(<<"a", " ", "b">>), Str(<<"(", "a", ";", ")">>),
       Str(<<"a", "\\", "\"", "b">>),
       Quoted(List(<<>>)),
       Quoted(List(<<Integer(1), List(<<Str(<<"x", " ", "y">>), List(<<>>)>>), Bool(TRUE)>>)),
       Form(Text("cat"), <<Str(<<"a", " ">>), Integer(1)>>),
       Form(Text("cat"), <<Quoted(List(<<Str(<<"a">>)>>))>>),
       Form(Text("uppercase"), <<Str(<<"a", "b">>)>>),
       Form(Text("+"), <<Integer(1), Float(1, 2)>>),
       Sym(<<"'", "x">>), Sym(<<"'", "'">>) >>

RunRoundTrip ==
    \/ \E i \in 1..Len(RoundTripPrograms) : Interpreter_run(RoundTripPrograms[i], 0)
    \/ Reader_reread

\* binding forms that fail: in the value, in the name, in the count, in a
\* binding expression and in the body of a let, in the root frame, in a let
\* frame and in a call frame; and forms whose value expression binds the
\* very name before it fails
Fails == Call(Text("z"), <<>>)
Let2(n1, e1, n2, e2, body) ==
    Form(Text("let"), <<List(<<List(<<Symbol(n1), e1>>), List(<<Symbol(n2), e2>>)>>), body>>)
BindingPrograms ==
    << Define(Text("x"), Integer(1)),
       Undef(Text("x")),
       Define(Text("x"), Fails),
       Define(Text("x"), Form(Text("+"), <<Integer(1), Str(<<"s">>)>>)),
       Form(Text("define"), <<Symbol(Text("x"))>>),
       Form(Text("define"), <<Integer(1), Integer(2)>>),
       Form(Text("define"), <<List(<<>>), Integer(2)>>),
       Form(Text("define"), <<List(<<Symbol(Text("x")), Integer(1)>>), Integer(2)>>),
       Define(Text("x"), Form(Text("if"), <<Define(Text("x"), Integer(2)), Fails, Fails>>)),
       Define(Text("x"), Form(Text("if"), <<Undef(Text("x")), Fails, Fails>>)),
       Let2(Text("a"), Integer(1), Text("x"), Fails, Sym(Text("a"))),
       Let1(Text("x"), Integer(2), Fails),
       Let1(Text("x"), Define(Text("x"), Integer(3)), Fails),
       Let1(Text("a"), Integer(1), Define(Text("a"), Fails)),
       Let1(Text("a"), Integer(1), Let1(Text("a"), Fails, Sym(Text("a")))),
       Let1(Text("a"), Integer(1), Let1(Text("b"), Integer(2), Fails)),
       List(<<Lambda(<<Text("a")>>, Define(Text("a"), Fails)), Integer(1)>>),
       List(<<Lambda(<<Text("a")>>, Let1(Text("b"), Integer(2), Fails)), Integer(1)>>) >>

RunBinding == \E i \in 1..Len(BindingPrograms) : Interpreter_run(BindingPrograms[i], 0)

\* comparisons of two operands, one of every variant a program can write
CmpOps == <<Text("="), Text("!="), Text(">"), Text(">="), Text("<"), Text("<=")>>
CmpOperands ==
    << Integer(1), Float(1, 2), Bool(TRUE), Str(<<"s">>), Sym(Text("nil")),
       Quoted(Symbol(Text("x"))), Quoted(List(<<Integer(1)>>)) >>
RunLogic ==
    \E o \in 1..Len(CmpOps) :
        \E i \in 1..Len(CmpOperands) :
            \E j \in 1..Len(CmpOperands) :
                Interpreter_run(Form(CmpOps[o], <<CmpOperands[i], CmpOperands[j]>>), 0)

\* the builtins with a fixed argument count, and the count of each
FixedArity ==
    << <<Text("define"), 2>>, <<Text("undef"), 1>>, <<Text("let"), 2>>, <<Text("lambda"), 2>>,
       <<Text("if"), 3>>, <<Text("quote"), 1>>, <<Text("eval"), 1>>, <<Text("env"), 0>>,
       <<Text("type"), 1>>,
       <<Text("="), 2>>, <<Text("!="), 2>>, <<Text(">"), 2>>, <<Text(">="), 2>>,
       <<Text("<"), 2>>, <<Text("<="), 2>>, <<Text("and"), 2>>, <<Text("or"), 2>>,
       <<Text("not"), 1>>,
       <<Text("cons"), 2>>, <<Text("list-ref"), 2>>, <<Text("append"), 2>>,
       <<Text("car"), 1>>, <<Text("cdr"), 1>>, <<Text("length"), 1>>,
       <<Text("uppercase"), 1>>, <<Text("lowercase"), 1>> >>

\* a fixed-arity builtin on 0 to MaxCount arguments, each an expression that
\* would bind x were it evaluated
MaxCount == 4
RunArity ==
    \E b \in 1..Len(FixedArity) :
        \E n \in 0..MaxCount :
            Interpreter_run(Form(FixedArity[b][1],
                                 [i \in 1..n |-> Define(Text("x"), Integer(i))]), 0)

\* uses of builtins in operator position whose outcome does not depend on
\* the frames: the builtin's answer differs from what a closure would give
ShadowUses ==
    << Call(Text("car"), <<Quoted(List(<<Integer(1), Integer(2)>>))>>),
       Call(Text("+"), <<Integer(1), Integer(2)>>),
       Call(Text("quote"), <<Symbol(Text("x"))>>),
       Call(Text("if"), <<Bool(TRUE), Integer(1), Fails>>) >>

\* bindings of builtin names by define, let and closure parameters, to
\* closures and to other values, and the uses under them
ShadowPrograms ==
    ShadowUses \o
    << Define(Text("car"), Lambda(<<Text("a")>>, Integer(42))),
       Define(Text("+"), Integer(5)),
       DefineProc(Text("quote"), <<Text("a")>>, Integer(7)),
       DefineProc(Text("if"), <<Text("a"), Text("b"), Text("r")>>, Integer(0)),
       Sym(Text("car")),
       Let1(Text("car"), Lambda(<<Text("a")>>, Integer(42)), ShadowUses[1]),
       Let1(Text("+"), Integer(5), ShadowUses[2]),
       List(<<Lambda(<<Text("car")>>, ShadowUses[1]), Lambda(<<Text("a")>>, Integer(42))>>),
       List(<<Lambda(<<Text("quote"), Text("if")>>, List(<<ShadowUses[3], ShadowUses[4]>>)),
              Lambda(<<Text("a")>>, Integer(7)), Integer(0)>>),
       Let1(Text("x"), Integer(1), Sym(Text("x"))) >>

RunShadow == \E i \in 1..Len(ShadowPrograms) : Interpreter_run(ShadowPrograms[i], 0)

\* closure calls whose arguments bind names, so that their order shows, or
\* fail; by name and anonymous, from the root frame and from a let frame
ArgumentPrograms ==
    << DefineProc(Text("f"), <<Text("a"), Text("b")>>, Sym(Text("a"))),
       DefineProc(Text("g"), <<Text("a"), DOT, Text("r")>>, Sym(Text("r"))),
       Call(Text("f"), <<Define(Text("x"), Integer(1)), Define(Text("x"), Integer(2))>>),
       Call(Text("f"), <<Fails, Define(Text("y"), Integer(2))>>),
       Call(Text("f"), <<Define(Text("x"), Integer(3)), Fails>>),
       Call(Text("g"), <<Integer(1), Fails, Define(Text("x"), Integer(4))>>),
       Call(Text("f"), <<Integer(1)>>),
       Let1(Text("x"), Integer(5),
            Call(Text("f"), <<Sym(Text("x")), Define(Text("x"), Integer(6))>>)),
       List(<<Lambda(<<Text("a")>>, Sym(Text("a"))), Fails>>),
       List(<<Lambda(<<Text("a"), Text("b")>>, Define(Text("y"), Sym(Text("b")))),
              Integer(1), Integer(2)>>),
       Call(Text("f"), <<Call(Text("f"), <<Integer(1), Integer(2)>>),
                         Call(Text("f"), <<Integer(3), Fails>>)>>) >>

RunArguments == \E i \in 1..Len(ArgumentPrograms) : Interpreter_run(ArgumentPrograms[i], 0)

\* lets whose binding expressions name each other, a name of the enclosing
\* frame, or bind a name themselves; with a name twice, with no binding,
\* nested, failing, and in a closure body
LetPrograms ==
    << Define(Text("x"), Integer(1)),
       Sym(Text("x")),
       Let2(Text("a"), Integer(1), Text("b"), Sym(Text("a")), Sym(Text("b"))),
       Let2(Text("x"), Integer(2), Text("y"), Sym(Text("x")), Sym(Text("y"))),
       Let1(Text("x"), Integer(3), Define(Text("x"), Integer(4))),
       Let1(Text("y"), Integer(3), Define(Text("b"), Sym(Text("y")))),
       Let1(Text("x"), Define(Text("x"), Integer(3)), Sym(Text("x"))),
       Let2(Text("a"), Integer(1), Text("a"), Integer(2), Sym(Text("a"))),
       Let1(Text("a"), Integer(1), Let1(Text("b"), Sym(Text("a")), Sym(Text("b")))),
       Let1(Text("y"), Fails, Sym(Text("y"))),
       Form(Text("let"), <<List(<<>>), Integer(1)>>),
       List(<<Lambda(<<Text("a")>>, Let1(Text("b"), Sym(Text("a")), Sym(Text("b")))),
              Integer(7)>>) >>

RunLet == \E i \in 1..Len(LetPrograms) : Interpreter_run(LetPrograms[i], 0)

\* names the reader makes symbols of: plain ones, the name of a builtin, the
\* sentinel, the constants' names and a name beginning with '
BindNames ==
    << Text("x"), Text("car"), DOT, Text("e"), Text("pi"), Text("else"),
       Text("NAN"), Text("INF"), Text("-INF"), Text("MAX"), Text("MIN"), <<"'", "x">> >>

\* the lines that bind name by define, by let and as a closure parameter,
\* and read it
BindLines(name) ==
    << join(<< <<"(">>, Text("define"), name, <<"5">>, <<")">> >>, <<" ">>),
       name,
       join(<< <<"(">>, Text("let"), <<"(">>, <<"(">>, name, <<"5">>, <<")">>, <<")">>,
               name, <<")">> >>, <<" ">>),
       join(<< <<"(">>, <<"(">>, Text("lambda"), <<"(">>, name, <<")">>, name, <<")">>,
               <<"5">>, <<")">> >>, <<" ">>) >>

\* what the reader answers for each of the lines
BindReads ==
    [i \in 1..Len(BindNames) |-> [f \in 1..4 |-> Value_new(BindLines(BindNames[i])[f])]]

RunBind ==
    \E i \in 1..Len(BindNames) :
        \E f \in 1..4 : Interpreter_run_line(BindReads[i][f])

Next ==
    \/ RunScope \/ RunCall \/ RunBranch \/ RunMath \/ RunListRef \/ RunRead \/ RunRoundTrip
    \/ RunBinding \/ RunLogic \/ RunArity \/ RunShadow \/ RunArguments
    \/ RunLet \/ RunBind

Spec == Init /\ [][Next]_vars
SpecScope == Init /\ [][RunScope]_vars
SpecCall == Init /\ [][RunCall]_vars
SpecBranch == Init /\ [][RunBranch]_vars
SpecMath == Init /\ [][RunMath]_vars
SpecListRef == Init /\ [][RunListRef]_vars
SpecRead == Init /\ [][RunRead]_vars
SpecRoundTrip == Init /\ [][RunRoundTrip]_vars
SpecBinding == Init /\ [][RunBinding]_vars
SpecLogic == Init /\ [][RunLogic]_vars
SpecArity == Init /\ [][RunArity]_vars
SpecShadow == Init /\ [][RunShadow]_vars
SpecArguments == Init /\ [][RunArguments]_vars
SpecLet == Init /\ [][RunLet]_vars
SpecBind == Init /\ [][RunBind]_vars

\* ------------------------------------------------------- reading the log
LogIdx == 1..Len(log)

\* the frames from env outward to the root
RECURSIVE Chain(_, _)
Chain(fr, env) ==
    <<env>> \o (IF fr[env].parent = 0 THEN <<>> ELSE Chain(fr, fr[env].parent))

OnChain(fr, env, f) == \E j \in 1..Len(Chain(fr, env)) : Chain(fr, env)[j] = f

\* what a name denotes along a sequence of frames: the binding of the first
\* frame that binds it, or the name itself as a Str
Nearest(fr, chain, name) ==
    LET binders == {j \in 1..Len(chain) : name \in DOMAIN fr[chain[j]].vars}
    IN  IF binders = {} THEN Str(name)
        ELSE fr[chain[CHOOSE j \in binders : \A m \in binders : j <= m]].vars[name]

\* the eval call an event at index i and depth d belongs to: the last eval
\* entry at that depth before i
Enclosing(i, d) ==
    CHOOSE j \in 1..i : /\ log[j].k = "eval" /\ log[j].lvl = d
                        /\ \A m \in (j + 1)..i : ~(log[m].k = "eval" /\ log[m].lvl = d)

\* the return of the closure call logged at index c
CallRet(c) ==
    CHOOSE j \in (c + 1)..Len(log) :
        /\ log[j].k = "callret" /\ log[j].lvl = log[c].lvl
        /\ \A m \in (c + 1)..(j - 1) : ~(log[m].k = "callret" /\ log[m].lvl = log[c].lvl)

\* the closure calls of the log that got a call frame
FramedCalls == {c \in LogIdx : log[c].k = "call" /\ c < Len(log) /\ log[c + 1].k = "frame"}

\* the frames in which `lambda` created the closure p
CreationFrames(p) == {lambdas[i].frame : i \in {j \in 1..Len(lambdas) : lambdas[j].proc = p}}

\* ------------------------------------------------------------------ claims
\* C1: when a closure is applied, a name looked up in its call frame resolves
\* through the call frame, then the frame the closure was created in and
\* that frame's parents; the caller's frames play no part.
C1_LexicalScoping ==
    \A c \in FramedCalls :
        \A g \in (c + 1)..CallRet(c) :
            (log[g].k = "get" /\ log[g].env = log[c + 1].id) =>
                \A A \in CreationFrames(log[c].proc) :
                    log[g].v = Nearest(log[g].frames,
                                       <<log[c + 1].id>> \o Chain(log[g].frames, A),
                                       log[g].name)

\* a closure created in frame A is called from a frame B off A's chain that
\* binds the looked-up free name to another value
C1_Witness ==
    \E c \in FramedCalls :
        \E g \in (c + 1)..CallRet(c) :
            /\ log[g].k = "get" /\ log[g].env = log[c + 1].id
            /\ log[g].name \notin DOMAIN log[c + 1].vars
            /\ \E A \in CreationFrames(log[c].proc) :
                LET B == log[Enclosing(c, log[c].lvl)].env
                    fr == log[g].frames
                IN  /\ ~OnChain(fr, A, B)
                    /\ log[g].name \in DOMAIN fr[A].vars
                    /\ log[g].name \in DOMAIN fr[B].vars
                    /\ fr[B].vars[log[g].name] # fr[A].vars[log[g].name]
                    /\ log[g].v = fr[A].vars[log[g].name]

\* C3: get(name) returns the binding of the nearest frame on the chain that
\* binds name, and Str(name) when no frame up to the root binds it.
C3_GetNearestBinding ==
    \A g \in LogIdx :
        log[g].k = "get" =>
            log[g].v = Nearest(log[g].frames, Chain(log[g].frames, log[g].env), log[g].name)

\* a lookup answered by a nearer frame that hides another binding of the
\* name farther out
C3_Witness ==
    \E g \in LogIdx :
        /\ log[g].k = "get"
        /\ LET fr == log[g].frames
               c == Chain(fr, log[g].env)
           IN  \E i, j \in 1..Len(c) :
                /\ i < j
                /\ log[g].name \in DOMAIN fr[c[i]].vars
                /\ log[g].name \in DOMAIN fr[c[j]].vars
                /\ fr[c[i]].vars[log[g].name] # fr[c[j]].vars[log[g].name]
                /\ log[g].v = fr[c[i]].vars[log[g].name]

\* a lookup of a name no frame binds
C3_WitnessUnbound ==
    \E g \in LogIdx :
        /\ log[g].k = "get"
        /\ \A f \in 1..Len(log[g].frames) : log[g].name \notin DOMAIN log[g].frames[f].vars
        /\ log[g].v = Str(log[g].name)

\* C2: a define or undef changes the frame it is evaluated in and no other:
\* every other frame keeps its mapping, the frame keeps its parent and its
\* other names, and an undef of a name the frame does not bind changes
\* nothing, so an inherited binding stays visible.
C2_MutationLocal ==
    \A i \in LogIdx :
        (log[i].k = "define" \/ log[i].k = "undef") =>
            LET ev == log[i]
                name == ev.name
                here == log[Enclosing(i, ev.lvl)].env
                pre == ev.pre
                post == ev.post
            IN  /\ ev.env = here
                /\ Len(post) = Len(pre)
                /\ \A f \in 1..Len(pre) : f # here => post[f] = pre[f]
                /\ post[here].parent = pre[here].parent
                /\ DOMAIN post[here].vars \ {name} = DOMAIN pre[here].vars \ {name}
                /\ \A x \in DOMAIN pre[here].vars \ {name} :
                        post[here].vars[x] = pre[here].vars[x]
                /\ (ev.k = "define") => name \in DOMAIN post[here].vars
                /\ (ev.k = "undef") => name \notin DOMAIN post[here].vars
                /\ (ev.k = "undef" /\ name \notin DOMAIN pre[here].vars) =>
                        /\ post = pre
                        /\ Env_get(post, here, name) = Env_get(pre, here, name)

\* an undef, in a child frame, of a name bound only in an ancestor
C2_Witness ==
    \E i \in LogIdx :
        /\ log[i].k = "undef"
        /\ LET ev == log[i]
               c == Chain(ev.pre, ev.env)
           IN  /\ ev.name \notin DOMAIN ev.pre[ev.env].vars
               /\ \E j \in 2..Len(c) : ev.name \in DOMAIN ev.pre[c[j]].vars
               /\ Env_get(ev.post, ev.env, ev.name) # Str(ev.name)

\* the closure calls of the log, variadic or not
Calls == {c \in LogIdx : log[c].k = "call"}
IsVariadic(params) == \E i \in 1..Len(params) : params[i] = DOT

\* C4: a call of a closure without the sentinel with n # p arguments returns
\* WrongNumArgs{expected: p, got: n} at once: no call frame, no evaluation of
\* the body; with n = p the call goes on to its call frame.
C4_ArityFailure ==
    \A c \in Calls :
        LET p == Len(log[c].proc.params)
            n == Len(log[c].args)
        IN  ~IsVariadic(log[c].proc.params) =>
                IF n # p
                THEN /\ log[c + 1].k = "callret"
                     /\ log[c + 1].kind = "Err"
                     /\ log[c + 1].v = WrongNumArgs(log[c].name, p, n)
                ELSE /\ log[c + 1].k = "frame"
                     /\ log[c + 1].by = "call"

\* a 2-parameter closure called by name with 3 arguments
C4_Witness ==
    \E c \in Calls :
        /\ log[c].proc.params = <<Text("a"), Text("b")>>
        /\ Len(log[c].args) = 3
        /\ log[c].name = Text("f")
        /\ result.kind = "Err"
        /\ result.v = WrongNumArgs(Text("f"), 2, 3)

\* the position of the first sentinel in a parameter list
DotAt(params) == CHOOSE i \in 1..Len(params) :
                    params[i] = DOT /\ \A j \in 1..(i - 1) : params[j] # DOT

\* C5: a closure with k positional parameters, the sentinel and a name r,
\* called with n >= k arguments, gets a call frame that binds the i-th
\* positional parameter to the i-th argument, r to the List of the other n - k
\* arguments in order, and nothing else.
C5_VariadicBinding ==
    \A c \in Calls :
        LET params == log[c].proc.params
            args == log[c].args
        IN  (IsVariadic(params) /\ DotAt(params) < Len(params)
             /\ Len(args) >= DotAt(params) - 1) =>
                LET k == DotAt(params) - 1
                    r == params[k + 2]
                IN  /\ log[c + 1].k = "frame"
                    /\ log[c + 1].by = "call"
                    /\ DOMAIN log[c + 1].vars = {params[i] : i \in 1..k} \cup {r}
                    /\ \A i \in 1..k : log[c + 1].vars[params[i]] = args[i]
                    /\ log[c + 1].vars[r] = List(SubSeq(args, k + 1, Len(args)))

\* (a . r) called with 3 arguments: r is the list of the last two
C5_Witness ==
    \E c \in Calls :
        /\ log[c].proc.params = <<Text("a"), DOT, Text("r")>>
        /\ Len(log[c].args) = 3
        /\ log[c + 1].k = "frame"
        /\ log[c + 1].vars[Text("r")] = List(<<log[c].args[2], log[c].args[3]>>)

\* the variadic call with no argument left over: r is the empty List
C5_WitnessEmpty ==
    \E c \in Calls :
        /\ log[c].proc.params = <<Text("a"), Text("b"), DOT, Text("r")>>
        /\ Len(log[c].args) = 2
        /\ log[c + 1].k = "frame"
        /\ log[c + 1].vars[Text("r")] = List(<<>>)

\* the return of the eval call logged at index j
EvalRet(j) ==
    CHOOSE m \in (j + 1)..Len(log) :
        /\ log[m].k = "ret" /\ log[m].lvl = log[j].lvl
        /\ \A x \in (j + 1)..(m - 1) : ~(log[x].k = "ret" /\ log[x].lvl = log[j].lvl)

\* the eval calls an eval call makes itself
Kids(j) ==
    {m \in (j + 1)..(EvalRet(j) - 1) : log[m].k = "eval" /\ log[m].lvl = log[j].lvl + 1}

\* the evaluations of an if form with its three arguments
IfEvals ==
    {j \in LogIdx : /\ log[j].k = "eval"
                    /\ log[j].e.t = "List"
                    /\ Len(log[j].e.l) = 4
                    /\ log[j].e.l[1] = Symbol(Text("if"))}

\* truthiness as the specification words it
Truthy(v) ==
    CASE v.t = "Bool"    -> v.b
      [] v.t = "Nil"     -> FALSE
      [] v.t = "List"    -> Len(v.l) # 0
      [] v.t = "Integer" -> v.n # 0
      [] v.t = "Float"   -> ~(v.n = 0 /\ v.d # 0)
      [] OTHER -> TRUE

\* the if evaluated at j evaluates its condition, once and first; when the
\* condition fails the if fails with it; otherwise it evaluates one branch,
\* the second argument when truth(condition) and the third otherwise, and
\* returns what the branch returns; nothing else happens between
IfShape(j, truth(_)) ==
    LET form == log[j].e.l
        kids == Kids(j)
    IN  /\ kids # {}
        /\ LET c == CHOOSE m \in kids : \A x \in kids : m <= x
                cr == EvalRet(c)
            IN  /\ log[c].e = form[2]
                /\ log[c].env = log[j].env
                /\ IF log[cr].kind # "Ok"
                   THEN /\ kids = {c}
                        /\ log[EvalRet(j)].kind = log[cr].kind
                        /\ log[EvalRet(j)].v = log[cr].v
                   ELSE \E b \in kids \ {c} :
                        /\ kids = {c, b}
                        /\ log[b].e = (IF truth(log[cr].v) THEN form[3] ELSE form[4])
                        /\ log[b].env = log[j].env
                        /\ log[EvalRet(j)].kind = log[EvalRet(b)].kind
                        /\ log[EvalRet(j)].v = log[EvalRet(b)].v
                        /\ \A m \in (j + 1)..(EvalRet(j) - 1) :
                                \/ c <= m /\ m <= cr
                                \/ b <= m /\ m <= EvalRet(b)
                                \/ log[m].k = "to_bool"

\* every if takes the branch Value::to_bool chooses
IfFollowsToBool == \A j \in IfEvals : IfShape(j, to_bool)

\* an if whose untaken branch would have failed returns the taken one's value
IfSkipsFailingBranch ==
    \E j \in IfEvals :
        /\ log[j].e.l[4] = Call(Text("z"), <<>>)
        /\ log[EvalRet(j)].kind = "Ok"
        /\ log[EvalRet(j)].v = Integer(1)

\* C6: if evaluates its condition exactly once, then exactly one branch: the
\* second argument when the condition is truthy, the third otherwise; it
\* returns that branch's result, and the other branch is never evaluated.
C6_IfOneBranch == \A j \in IfEvals : IfShape(j, Truthy)

\* C7: wherever if, cond, not, and, or ask for the truth of a value, Bool is
\* its own value, Nil is false, a List is false exactly when empty, Integer
\* and Float are false exactly when zero, every other value is true; not
\* returns the negation.
C7_Truthiness ==
    \A i \in LogIdx :
        /\ log[i].k = "to_bool" => log[i].b = Truthy(log[i].arg)
        /\ log[i].k = "not" => log[i].v = Bool(~Truthy(log[i].arg))

\* C8: + - * / modulo on n >= 2 numbers return the left fold of the binary
\* operation over the operands in order, an Integer exactly when every
\* operand is an Integer.
C8_LeftFold ==
    \A i \in LogIdx :
        log[i].k = "math" =>
            LET operands == log[i].args
                folded == fold(log[i].op, Head(operands), Tail(operands))
            IN  folded.ok =>
                    /\ log[i].kind = "Ok"
                    /\ log[i].v = folded.v
                    /\ (log[i].v.t = "Integer") <=>
                            (\A x \in 1..Len(operands) : operands[x].t = "Integer")

\* C9: list-ref returns the idx-th element for 1 <= idx <= length and the
\* error IndexOutOfBounds, carrying idx as an unsigned word, for every other
\* Integer idx.
C9_ListRefOneBased ==
    \A i \in LogIdx :
        log[i].k = "list_ref" =>
            IF 1 <= log[i].idx /\ log[i].idx <= Len(log[i].list)
            THEN log[i].kind = "Ok" /\ log[i].v = log[i].list[log[i].idx]
            ELSE log[i].kind = "Err" /\ log[i].v = IndexOutOfBounds(AsUsize(log[i].idx))

\* C10: every evaluation ends in a Value or in one of the typed run-time
\* errors, and the process lives on.
C10_ValueOrTypedError ==
    /\ alive
    /\ (result.kind = "None" \/ result.kind = "Ok" \/ result.kind = "Err")
    /\ result.kind = "Err" => IsRunError(result.v)

\* the reads of the log
Reads == {i \in LogIdx : log[i].k = "read"}
IsErroneous(ev, word) ==
    ev.kind = "Err" /\ ev.v.e = "ErroneousToken" /\ ev.v.token = word

\* C11: the reader returns a tree or a ParseError: Empty exactly for no
\* tokens, MismatchedParens exactly for tokens with unequal paren counts, and
\* otherwise ErroneousToken(')') for a leading ')' and ErroneousToken("'")
\* for a leading "'" that no '(' follows, the last token included; an
\* ErroneousToken names a ')' or such a "'" of the stream.
C11_ReaderFailures ==
    \A i \in Reads :
        LET ev == log[i]
            tokens == ev.tokens
            balanced == CountTokens(tokens, "LeftParen") = CountTokens(tokens, "RightParen")
            loose == {j \in 1..Len(tokens) :
                        /\ tokens[j].t = "Item" /\ tokens[j].s = <<"'">>
                        /\ (j = Len(tokens) \/ tokens[j + 1].t # "LeftParen")}
        IN  /\ ev.kind = "Ok" \/ ev.kind = "Err"
            /\ ev.kind = "Err" =>
                    \/ ev.v.e = "Empty" \/ ev.v.e = "MismatchedParens"
                    \/ ev.v.e = "ErroneousToken"
            /\ (Len(tokens) = 0) <=> (ev.kind = "Err" /\ ev.v.e = "Empty")
            /\ (Len(tokens) > 0 /\ ~balanced) <=>
                    (ev.kind = "Err" /\ ev.v.e = "MismatchedParens")
            /\ (Len(tokens) > 0 /\ balanced) =>
                    /\ tokens[1].t = "RightParen" => IsErroneous(ev, <<")">>)
                    /\ 1 \in loose => IsErroneous(ev, <<"'">>)
                    /\ IsErroneous(ev, <<"'">>) => loose # {}
                    /\ IsErroneous(ev, <<")">>) => CountTokens(tokens, "RightParen") > 0

\* the reads of the log that read back the value an evaluation returned
Rereads ==
    {i \in Reads : /\ i > 1 /\ log[i - 1].k = "ret" /\ log[i - 1].kind = "Ok"
                   /\ log[i].code = serialize(log[i - 1].v)}

\* C12: reading serialize(v) back succeeds, and serializing the tree read
\* gives the text serialize(v) again.
C12_RoundTrip ==
    \A i \in Rereads :
        /\ log[i].kind = "Ok"
        /\ serialize(log[i].v) = log[i].code

\* the evaluations of a kw form that returned an error
IsForm(e, kw) == e.t = "List" /\ Len(e.l) >= 1 /\ e.l[1] = Symbol(kw)
FailedForms(kw) ==
    {j \in LogIdx : /\ log[j].k = "eval"
                    /\ IsForm(log[j].e, kw)
                    /\ log[EvalRet(j)].kind = "Err"}
FailedBindingForms == FailedForms(Text("define")) \cup FailedForms(Text("let"))

\* the names a define or let form is to bind
OwnNames(e) ==
    IF Len(e.l) < 2 THEN {}
    ELSE IF IsForm(e, Text("define"))
    THEN IF e.l[2].t = "Symbol" THEN {e.l[2].s}
         ELSE IF e.l[2].t = "List" /\ Len(e.l[2].l) >= 1 /\ e.l[2].l[1].t = "Symbol"
         THEN {e.l[2].l[1].s}
         ELSE {}
    ELSE IF e.l[2].t # "List" THEN {}
    ELSE {e.l[2].l[i].l[1].s :
            i \in {b \in 1..Len(e.l[2].l) : /\ e.l[2].l[b].t = "List"
                                           /\ Len(e.l[2].l[b].l) >= 1
                                           /\ e.l[2].l[b].l[1].t = "Symbol"}}

\* the defines and undefs during the eval call logged at j
Mutations(j) ==
    {m \in j..EvalRet(j) : log[m].k = "define" \/ log[m].k = "undef"}

\* what a frame holds for a name
Held(fr, env, name) ==
    IF name \in DOMAIN fr[env].vars THEN <<fr[env].vars[name]>> ELSE <<>>

\* the frame of the eval call logged at j holds for name at the return what
\* it held at the entry
SameBinding(j, name) ==
    LET M == Mutations(j) IN
    \/ M = {}
    \/ Held(log[CHOOSE m \in M : \A x \in M : m <= x].pre, log[j].env, name)
         = Held(log[CHOOSE m \in M : \A x \in M : m >= x].post, log[j].env, name)

\* C13 as stated: when a define form or a let form fails, the frame it ran in
\* holds for each name of the form exactly what it held before the form, and
\* the error is what the top-level evaluation returns.
C13_FailureLeavesNoTrace ==
    \A j \in FailedBindingForms :
        /\ result.kind = "Err"
        /\ result.v = log[EvalRet(j)].v
        /\ \A name \in OwnNames(log[j].e) : SameBinding(j, name)

\* C13 amended: when a define form or a let form fails, the frame it ran in
\* holds for each name of the form what it held before, unless a define or
\* undef evaluated inside the form's own sub-expressions changed that name
\* in that frame; the form itself binds nothing. The error is what the
\* top-level evaluation returns.
C13_FailureLeavesNoOwnTrace ==
    \A j \in FailedBindingForms :
        /\ result.kind = "Err"
        /\ result.v = log[EvalRet(j)].v
        /\ \A m \in Mutations(j) : log[m].lvl > log[j].lvl
        /\ \A name \in OwnNames(log[j].e) :
                \/ SameBinding(j, name)
                \/ \E m \in Mutations(j) : /\ log[m].lvl > log[j].lvl
                                           /\ log[m].env = log[j].env
                                           /\ log[m].name = name

\* a define whose value expression was evaluated and failed, of a name the
\* frame binds already
C13_Witness ==
    \E j \in FailedForms(Text("define")) :
        /\ Kids(j) # {}
        /\ Mutations(j) = {}
        /\ \E name \in OwnNames(log[j].e) : name \in DOMAIN frames[log[j].env].vars

\* the evaluations of a comparison of two operands
CmpEvals ==
    {j \in LogIdx : /\ log[j].k = "eval"
                    /\ log[j].e.t = "List"
                    /\ Len(log[j].e.l) = 3
                    /\ \E o \in 1..Len(CmpOps) : log[j].e.l[1] = Symbol(CmpOps[o])}

\* the values of the operands of the comparison logged at j
CmpValues(j) == {log[EvalRet(m)].v : m \in Kids(j)}

IsNumeric(v) == v.t = "Integer" \/ v.t = "Float"

\* C14: a comparison (= != > >= < <=) of two operands of different variants,
\* other than an Integer with a Float, returns Bool false.
C14_CrossTypeNeverTrue ==
    \A j \in CmpEvals :
        (\E a \in CmpValues(j) : \E b \in CmpValues(j) :
            a.t # b.t /\ ~(IsNumeric(a) /\ IsNumeric(b)))
        => /\ log[EvalRet(j)].kind = "Ok"
           /\ log[EvalRet(j)].v = Bool(FALSE)

\* the evaluations of a fixed-arity builtin on another number of arguments
\* than its count
MiscountedEvals ==
    {j \in LogIdx : /\ log[j].k = "eval"
                    /\ log[j].e.t = "List"
                    /\ Len(log[j].e.l) >= 1
                    /\ \E b \in 1..Len(FixedArity) :
                            /\ log[j].e.l[1] = Symbol(FixedArity[b][1])
                            /\ Len(log[j].e.l) - 1 # FixedArity[b][2]}

\* the count of the fixed-arity builtin named by the head of e
Expected(e) ==
    FixedArity[CHOOSE b \in 1..Len(FixedArity) : e.l[1] = Symbol(FixedArity[b][1])][2]

\* C15: a fixed-arity builtin given another number of raw arguments fails
\* with WrongNumArgs carrying the expected and the actual count, before any
\* argument is evaluated and without changing or creating any frame.
C15_ArityUpFront ==
    \A j \in MiscountedEvals :
        /\ log[EvalRet(j)].kind = "Err"
        /\ log[EvalRet(j)].v.e = "WrongNumArgs"
        /\ log[EvalRet(j)].v.expected = Expected(log[j].e)
        /\ log[EvalRet(j)].v.got = Len(log[j].e.l) - 1
        /\ EvalRet(j) = j + 1

\* the frames the closures inside a value capture
RECURSIVE Captured(_)
Captured(v) ==
    IF v.t = "Proc" THEN {v.env}
    ELSE IF v.t = "List" THEN UNION {Captured(v.l[i]) : i \in 1..Len(v.l)}
    ELSE {}

\* the frames a frame holds a reference to: its parent, and the captured
\* frame of every closure bound in it
Owns(f) ==
    (IF frames[f].parent = 0 THEN {} ELSE {frames[f].parent})
        \cup UNION {Captured(frames[f].vars[x]) : x \in DOMAIN frames[f].vars}

\* the frames reached from the frames of S in at most n steps
RECURSIVE OwnedWithin(_, _)
OwnedWithin(S, n) ==
    IF n = 0 THEN S ELSE OwnedWithin(S \cup UNION {Owns(f) : f \in S}, n - 1)

\* C16: the ownership graph over frames is acyclic: following parent
\* references and the captured frames of the closures bound in a frame,
\* directly or inside a list, never leads from a frame back to it.
C16_OwnershipAcyclic ==
    \A f \in 1..Len(frames) : f \notin OwnedWithin(Owns(f), Len(frames))

\* the evaluations of a list whose first element is the name of a builtin
BuiltinEvals ==
    {j \in LogIdx : /\ log[j].k = "eval"
                    /\ log[j].e.t = "List"
                    /\ Len(log[j].e.l) >= 1
                    /\ log[j].e.l[1].t = "Symbol"
                    /\ \E i \in 1..Len(BUILTINS) : BUILTINS[i] = log[j].e.l[1].s}

\* the outcome of e in a session that has bound nothing
Pristine(e) == eval(e, 1, State(<<Env_new(0)>>, <<>>, <<>>, overflow_checks, 0), 0)

\* C17: a list whose first element is a builtin's name invokes the builtin on
\* the raw arguments whatever the frames on the chain bind that name to: the
\* evaluation neither looks the name up nor calls a closure under it, and
\* returns what the builtin returns where nothing is bound.
C17_BuiltinsNotShadowed ==
    \A j \in BuiltinEvals :
        /\ \A m \in (j + 1)..(EvalRet(j) - 1) :
                log[m].lvl = log[j].lvl => (log[m].k # "get" /\ log[m].k # "call")
        /\ (\E u \in 1..Len(ShadowUses) : ShadowUses[u] = log[j].e) =>
                /\ log[EvalRet(j)].kind = Pristine(log[j].e).kind
                /\ log[EvalRet(j)].v = Pristine(log[j].e).v

\* (car (quote (1 2))) evaluated where the chain binds car to a closure that
\* would return 42: the builtin answers 1
C17_Witness ==
    \E j \in BuiltinEvals :
        /\ log[j].e = ShadowUses[1]
        /\ Nearest(frames, Chain(frames, log[j].env), Text("car")).t = "Proc"
        /\ log[EvalRet(j)].v = Integer(1)

\* the evaluations of a list that apply a closure: the first element is a
\* closure, or a symbol run_proc resolved to one
ClosureCalls ==
    {j \in LogIdx : /\ log[j].k = "eval"
                    /\ log[j].e.t = "List"
                    /\ Len(log[j].e.l) >= 1
                    /\ \/ log[j].e.l[1].t = "Proc"
                       \/ /\ log[j].e.l[1].t = "Symbol"
                          /\ log[j + 1].k = "get"
                          /\ log[j + 1].lvl = log[j].lvl
                          /\ log[j + 1].v.t = "Proc"}

\* the entries of LispProc::call made by the evaluation logged at j itself
OwnCalls(j) ==
    {c \in (j + 1)..(EvalRet(j) - 1) : log[c].k = "call" /\ log[c].lvl = log[j].lvl}

\* the evaluations the one logged at j makes before it enters the closure
ArgKids(j) == {m \in Kids(j) : \A c \in OwnCalls(j) : m < c}

\* the i-th smallest element of a set of numbers
Nth(S, i) == CHOOSE m \in S : Cardinality({x \in S : x < m}) = i - 1

\* the argument evaluations that did not return a value
FailedKids(j) == {m \in ArgKids(j) : log[EvalRet(m)].kind # "Ok"}

\* C18: the arguments of a closure call are evaluated once each, left to
\* right, in the caller's frame, all before the call frame is made and the
\* body evaluated; when the k-th fails no later argument is evaluated, no
\* call frame is created, the body is not evaluated and the call returns
\* that failure.
C18_ArgumentsInOrder ==
    \A j \in ClosureCalls :
        LET args == Tail(log[j].e.l)
            n == Cardinality(ArgKids(j))
        IN  /\ n <= Len(args)
            /\ \A i \in 1..n :
                    /\ log[Nth(ArgKids(j), i)].e = args[i]
                    /\ log[Nth(ArgKids(j), i)].env = log[j].env
            /\ \A m \in Kids(j) \ ArgKids(j) : log[m].env # log[j].env
            /\ Cardinality(Kids(j) \ ArgKids(j)) <= 1
            /\ FailedKids(j) = {} =>
                    /\ n = Len(args)
                    /\ Cardinality(OwnCalls(j)) = 1
                    /\ \A c \in OwnCalls(j) :
                            log[c].args = [i \in 1..n |-> log[EvalRet(Nth(ArgKids(j), i))].v]
            /\ FailedKids(j) # {} =>
                    /\ FailedKids(j) = {Nth(ArgKids(j), n)}
                    /\ OwnCalls(j) = {}
                    /\ Kids(j) = ArgKids(j)
                    /\ \A m \in (j + 1)..(EvalRet(j) - 1) :
                            ~(log[m].k = "frame" /\ log[m].lvl = log[j].lvl)
                    /\ log[EvalRet(j)].kind = log[EvalRet(Nth(ArgKids(j), n))].kind
                    /\ log[EvalRet(j)].v = log[EvalRet(Nth(ArgKids(j), n))].v

\* a call with three arguments whose second fails: the first was evaluated,
\* the third is not
C18_Witness ==
    \E j \in ClosureCalls :
        /\ Len(log[j].e.l) = 4
        /\ Cardinality(ArgKids(j)) = 2
        /\ FailedKids(j) # {}
        /\ log[EvalRet(Nth(ArgKids(j), 1))].kind = "Ok"

\* the evaluations of a let form of two arguments whose bindings are pairs
\* with a symbol first
LetEvals ==
    {j \in LogIdx : /\ log[j].k = "eval"
                    /\ IsForm(log[j].e, Text("let"))
                    /\ Len(log[j].e.l) = 3
                    /\ log[j].e.l[2].t = "List"
                    /\ \A i \in 1..Len(log[j].e.l[2].l) :
                            /\ log[j].e.l[2].l[i].t = "List"
                            /\ Len(log[j].e.l[2].l[i].l) = 2
                            /\ log[j].e.l[2].l[i].l[1].t = "Symbol"}

\* the frames the let logged at j creates
LetFrames(j) ==
    {m \in (j + 1)..(EvalRet(j) - 1) :
        log[m].k = "frame" /\ log[m].lvl = log[j].lvl /\ log[m].by = "let"}

\* the evaluations the let logged at j makes before it creates its frame
BindKids(j) == {m \in Kids(j) : \A f \in LetFrames(j) : m < f}

\* the let logged at j evaluates its binding expressions in order in the
\* enclosing frame, and when all have a value it creates one frame, a child
\* of the enclosing frame, that binds exactly the let's names to those
\* values, evaluates the body in it and returns the body's outcome
LetShape(j) ==
    LET binds == log[j].e.l[2].l
        n == Cardinality(BindKids(j))
        val(i) == log[EvalRet(Nth(BindKids(j), i))].v
    IN  /\ n <= Len(binds)
        /\ \A i \in 1..n :
                /\ log[Nth(BindKids(j), i)].e = binds[i].l[2]
                /\ log[Nth(BindKids(j), i)].env = log[j].env
        /\ (\A m \in BindKids(j) : log[EvalRet(m)].kind = "Ok") =>
                /\ n = Len(binds)
                /\ Cardinality(LetFrames(j)) = 1
                /\ Cardinality(Kids(j) \ BindKids(j)) = 1
                /\ \A f \in LetFrames(j) :
                        /\ log[f].parent = log[j].env
                        /\ \A m \in 1..(f - 1) : log[m].k = "eval" => log[m].env # log[f].id
                        /\ DOMAIN log[f].vars = {binds[i].l[1].s : i \in 1..n}
                        /\ \A i \in 1..n :
                                (\A i2 \in (i + 1)..n : binds[i2].l[1].s # binds[i].l[1].s)
                                    => log[f].vars[binds[i].l[1].s] = val(i)
                        /\ \A m \in Kids(j) \ BindKids(j) :
                                /\ m > f
                                /\ log[m].e = log[j].e.l[3]
                                /\ log[m].env = log[f].id
                                /\ log[EvalRet(j)].kind = log[EvalRet(m)].kind
                                /\ log[EvalRet(j)].v = log[EvalRet(m)].v

\* the frame of the evaluation logged at j did not bind name at the entry and
\* binds it at the return
BoundMeanwhile(j, name) ==
    LET M == Mutations(j) IN
    /\ M # {}
    /\ Held(log[CHOOSE m \in M : \A x \in M : m <= x].pre, log[j].env, name) = <<>>
    /\ Held(log[CHOOSE m \in M : \A x \in M : m >= x].post, log[j].env, name) # <<>>

\* C19 as stated: let evaluates every binding expression in the enclosing
\* frame, so bindings do not see each other; the body runs in one new child
\* frame holding all the bindings; and after the let the enclosing frame
\* binds none of the let's names that it did not bind before.
C19_LetIsParallel ==
    \A j \in LetEvals :
        /\ LetShape(j)
        /\ \A name \in OwnNames(log[j].e) : ~BoundMeanwhile(j, name)

\* C19 amended: as stated, except that the enclosing frame may bind one of
\* the let's names afterwards when a define evaluated inside one of the
\* binding expressions bound it there; the let itself binds nothing in it.
C19_LetIsParallelOwnBindings ==
    \A j \in LetEvals :
        /\ LetShape(j)
        /\ \A m \in Mutations(j) : log[m].lvl > log[j].lvl
        /\ \A name \in OwnNames(log[j].e) :
                BoundMeanwhile(j, name) =>
                    \E m \in Mutations(j) :
                        /\ log[m].k = "define"
                        /\ log[m].env = log[j].env
                        /\ log[m].name = name
                        /\ \E b \in BindKids(j) : b < m /\ m < EvalRet(b)

\* a let of two bindings whose second expression is the name of the first:
\* it evaluates to what the enclosing frame gives, not to the first binding
C19_Witness ==
    \E j \in LetEvals :
        /\ Len(log[j].e.l[2].l) = 2
        /\ log[j].e.l[2].l[2].l[2] = Symbol(log[j].e.l[2].l[1].l[1].s)
        /\ Cardinality(LetFrames(j)) = 1
        /\ \A f \in LetFrames(j) :
                log[f].vars[log[j].e.l[2].l[2].l[1].s]
                    # log[f].vars[log[j].e.l[2].l[1].l[1].s]

\* the evaluations of a bare symbol in a frame that binds it and that the
\* evaluation at hand has not changed
BoundReads ==
    {j \in LogIdx : /\ log[j].k = "eval"
                    /\ log[j].e.t = "Symbol"
                    /\ log[j].env \in 1..Len(frames)
                    /\ log[j].e.s \in DOMAIN frames[log[j].env].vars
                    /\ \A m \in LogIdx :
                            (log[m].k = "define" \/ log[m].k = "undef")
                                => log[m].env # log[j].env}

\* the names resolve_symbol answers itself, and the names eval strips
IsReserved(s) ==
    \/ s \in {Text("nil"), Text("else"), Text("pi"), Text("e"), Text("NAN"),
              Text("INF"), Text("-INF"), Text("MAX"), Text("MIN")}
    \/ (Len(s) > 0 /\ s[1] = "'")

\* C20 as stated: once a symbol is bound in a frame, by define, by let or as
\* a closure parameter, evaluating the bare symbol in that frame returns the
\* value bound, whatever the name.
C20_ReadAfterBind ==
    \A j \in BoundReads :
        /\ log[EvalRet(j)].kind = "Ok"
        /\ log[EvalRet(j)].v = frames[log[j].env].vars[log[j].e.s]

\* C20 amended: the same for every name other than the constants' names
\* (nil, else, pi, e, NAN, INF, -INF, MAX, MIN) and names beginning with '.
C20_ReadAfterBindUnreserved ==
    \A j \in BoundReads :
        ~IsReserved(log[j].e.s) =>
            /\ log[EvalRet(j)].kind = "Ok"
            /\ log[EvalRet(j)].v = frames[log[j].env].vars[log[j].e.s]

\* the name of a builtin, bound in a let or call frame and read there
C20_Witness ==
    \E j \in BoundReads :
        /\ log[j].e.s = Text("car")
        /\ log[j].env # 1
        /\ log[EvalRet(j)].v = Float(5, 1)

\* the position after the one expression that starts at tokens[i], and after
\* the paren that closes the list whose elements start at tokens[i]; 0 when
\* there is none
RECURSIVE ExprEnd(_, _), ListEnd(_, _)
ExprEnd(tokens, i) ==
    IF i > Len(tokens) THEN 0
    ELSE IF tokens[i].t = "LeftParen" THEN ListEnd(tokens, i + 1)
    ELSE IF tokens[i].t = "RightParen" THEN 0
    ELSE IF tokens[i].s = <<"'">>
    THEN IF i < Len(tokens) /\ tokens[i + 1].t = "LeftParen"
         THEN ListEnd(tokens, i + 2)
         ELSE 0
    ELSE i + 1

ListEnd(tokens, i) ==
    IF i > Len(tokens) THEN 0
    ELSE IF tokens[i].t = "RightParen" THEN i + 1
    ELSE IF ExprEnd(tokens, i) = 0 THEN 0
    ELSE ListEnd(tokens, ExprEnd(tokens, i))

\* the stream is exactly one well-nested expression
OneExpression(tokens) == ExprEnd(tokens, 1) = Len(tokens) + 1

\* C21: when the reader returns a tree the token stream is exactly one
\* well-nested expression, no token left over; a stream with equal paren
\* counts that is not one well-nested expression gets a parse error.
C21_WholeStreamRead ==
    \A i \in Reads :
        /\ log[i].kind = "Ok" => OneExpression(log[i].tokens)
        /\ ( /\ Len(log[i].tokens) > 0
             /\ CountTokens(log[i].tokens, "LeftParen")
                    = CountTokens(log[i].tokens, "RightParen")
             /\ ~OneExpression(log[i].tokens) )
           => log[i].kind = "Err"

====


